---------------------------- MODULE Spec2Model ----------------------------
(***************************************************************************)
(* A model of mdbfs: a FUSE driver that presents a database as a file      *)
(* system.  Two backends are modelled: the SQLite backend (tables, rows    *)
(* and columns as /T/R/C) and the Berkeley DB backend (records as /K).     *)
(*                                                                         *)
(* C strings and byte buffers are sequences of one-character strings, so   *)
(* that offsets, lengths, separators and NUL-terminated reads are          *)
(* computed as the code computes them.                                     *)
(***************************************************************************)
EXTENDS Integers, Sequences, FiniteSets, TLC

VARIABLES
  pc,         \* position of main(): "start", "mounted", "exited", "crashed", or "path"
  opts,       \* cmdline_options as filled by fuse_opt_parse
  backend,    \* self-reported name of the descriptor main() holds, or "none"
  sdb,        \* content of the SQLite database file
  kdb,        \* content of the Berkeley DB file
  g_db,       \* the static handle of the selected backend's manager
  trace,      \* lifecycle calls main() has made, in order
  exit_code,  \* value returned by main(), once pc = "exited"
  muts,       \* number of mutating file system calls delivered so far
  call        \* the last call observed, with its arguments and results

vars == <<pc, opts, backend, sdb, kdb, g_db, trace, exit_code, muts, call>>

(***************************************************************************)
(* Bounds of the model.                                                    *)
(***************************************************************************)
MaxSegs == 5        \* path inputs have at most this many "/"-separated pieces
MaxMuts == 1        \* mutating file system calls per run
MaxBuf == 3         \* read buffer sizes range over 0..MaxBuf
MaxOff == 2         \* offsets range over 0..MaxOff

(***************************************************************************)
(* Strings.                                                                *)
(***************************************************************************)
Null == <<"NULL">>          \* the NULL pointer, where a string is expected
Slash == "/"
Dot == <<".">>
DotDot == <<".", ".">>
Root == <<"/">>

Min(a, b) == IF a <= b THEN a ELSE b

RECURSIVE SplitSlash(_)
\* The pieces of s between separators, empty pieces included.
SplitSlash(s) ==
  IF \A i \in 1..Len(s) : s[i] # Slash THEN <<s>>
  ELSE LET k == CHOOSE i \in 1..Len(s) :
                  s[i] = Slash /\ \A j \in 1..(i - 1) : s[j] # Slash
       IN <<SubSeq(s, 1, k - 1)>> \o SplitSlash(SubSeq(s, k + 1, Len(s)))

RECURSIVE JoinSlash(_)
\* The pieces joined by single separators; the inverse of SplitSlash.
JoinSlash(ps) ==
  IF Len(ps) = 0 THEN <<>>
  ELSE IF Len(ps) = 1 THEN ps[1]
  ELSE ps[1] \o <<Slash>> \o JoinSlash(Tail(ps))

Front(s) == SubSeq(s, 1, Len(s) - 1)
Last(s) == s[Len(s)]

(***************************************************************************)
(* utils/path.cxx: std::filesystem::path::lexically_normal on a POSIX      *)
(* path.  The path is iterated as root-directory, filenames, and an empty  *)
(* final element when it ends in a separator.                              *)
(***************************************************************************)
HasRootDirectory(p) == Len(p) > 0 /\ p[1] = Slash

Filenames(p) == SelectSeq(SplitSlash(p), LAMBDA s : s # <<>>)

EndsWithSeparator(p) ==
  Len(p) > 0 /\ p[Len(p)] = Slash /\ Filenames(p) # <<>>

\* One element of the iteration applied to the result built so far:
\* st.stack are the filenames kept, st.trail says the result ends in "/".
NormalStep(rooted, st, f) ==
  IF f = Dot THEN [st EXCEPT !.trail = (st.stack # <<>>)]
  ELSE IF f = DotDot THEN
    IF st.stack = <<>>
      THEN IF rooted THEN st ELSE [stack |-> <<DotDot>>, trail |-> FALSE]
    ELSE IF Last(st.stack) = DotDot
      THEN [stack |-> Append(st.stack, DotDot), trail |-> FALSE]
    ELSE [stack |-> Front(st.stack), trail |-> (Front(st.stack) # <<>>)]
  ELSE [stack |-> Append(st.stack, f), trail |-> FALSE]

RECURSIVE NormalFold(_, _, _)
NormalFold(rooted, st, fs) ==
  IF fs = <<>> THEN st
  ELSE NormalFold(rooted, NormalStep(rooted, st, Head(fs)), Tail(fs))

\* The empty final element of a path that ends in a separator.
FinalElement(ends, st) ==
  IF ends THEN [st EXCEPT !.trail = (st.stack # <<>>)] ELSE st

\* A trailing separator after a final dot-dot is removed.
AfterDotDot(st) ==
  IF st.trail /\ Last(st.stack) = DotDot THEN [st EXCEPT !.trail = FALSE] ELSE st

\* The result as a string; an empty relative result is ".".
Generic(rooted, body) ==
  IF rooted THEN <<Slash>> \o body
  ELSE IF body = <<>> THEN Dot
  ELSE body

Body(st) == JoinSlash(st.stack) \o (IF st.trail THEN <<Slash>> ELSE <<>>)

\* libstdc++ returns a path that is nothing but its root directory as it is
\* spelled: "//" stays "//".
mdbfs_path_lexically_normal(p) ==
  IF p = <<>> THEN <<>>
  ELSE IF \A i \in 1..Len(p) : p[i] = Slash THEN p
  ELSE Generic(HasRootDirectory(p),
               Body(AfterDotDot(FinalElement(EndsWithSeparator(p),
                      NormalFold(HasRootDirectory(p),
                                 [stack |-> <<>>, trail |-> FALSE],
                                 Filenames(p))))))

mdbfs_path_is_absolute(p) == HasRootDirectory(mdbfs_path_lexically_normal(p))

(***************************************************************************)
(* sqlite-fuse.c: struct mdbfs_sqlite_path and its decoder.                *)
(***************************************************************************)
\* The characters of s before its first separator (the while loops that
\* advance p_end), and what is left from that separator on.
FirstSlash(s) ==
  IF \E i \in 1..Len(s) : s[i] = Slash
    THEN CHOOSE i \in 1..Len(s) : s[i] = Slash /\ \A j \in 1..(i - 1) : s[j] # Slash
    ELSE Len(s) + 1

Component(s) == SubSeq(s, 1, FirstSlash(s) - 1)
AfterComponent(s) == SubSeq(s, FirstSlash(s), Len(s))

NoPath == [ok |-> FALSE, type |-> "NONE", table |-> Null, row |-> Null, column |-> Null]

SqlitePath(type, table, row, column) ==
  [ok |-> TRUE, type |-> type, table |-> table, row |-> row, column |-> column]

\* A decoder that takes the first three components and ignores the rest.
path_from_string_lenient(path) ==
  LET normalized(n) ==
        LET first(table, e1) ==
              LET second(row, e2) ==
                    IF e2 = <<>> THEN SqlitePath("ROW", table, row, Null)
                    ELSE SqlitePath("COLUMN", table, row, Component(Tail(e2)))
              IN IF e1 = <<>> THEN SqlitePath("TABLE", table, Null, Null)
                 ELSE second(Component(Tail(e1)), AfterComponent(Tail(e1)))
        IN IF ~mdbfs_path_is_absolute(n) THEN NoPath
           ELSE IF n = Root THEN SqlitePath("DATABASE", Null, Null, Null)
           ELSE first(Component(Tail(n)), AfterComponent(Tail(n)))
  IN normalized(mdbfs_path_lexically_normal(path))

\* A decoder that leaves a component of length zero absent.
path_from_string_empty_absent(path) ==
  LET filled(s) == IF s = <<>> THEN Null ELSE s
      normalized(n) ==
        LET first(table, e1) ==
              LET second(row, e2) ==
                    LET third(column, e3) ==
                          IF e3 = <<>>
                            THEN SqlitePath("COLUMN", table, row, filled(column))
                          ELSE NoPath
                    IN IF e2 = <<>> THEN SqlitePath("ROW", table, filled(row), Null)
                       ELSE third(Component(Tail(e2)), AfterComponent(Tail(e2)))
              IN IF e1 = <<>> THEN SqlitePath("TABLE", table, Null, Null)
                 ELSE second(Component(Tail(e1)), AfterComponent(Tail(e1)))
        IN IF ~mdbfs_path_is_absolute(n) THEN NoPath
           ELSE IF n = Root THEN SqlitePath("DATABASE", Null, Null, Null)
           ELSE first(Component(Tail(n)), AfterComponent(Tail(n)))
  IN normalized(mdbfs_path_lexically_normal(path))

mdbfs_sqlite_path_from_string(path) ==
  LET normalized(n) ==
        LET first(table, e1) ==
              LET second(row, e2) ==
                    LET third(column, e3) ==
                          IF e3 = <<>> THEN SqlitePath("COLUMN", table, row, column)
                          ELSE NoPath
                    IN IF e2 = <<>> THEN SqlitePath("ROW", table, row, Null)
                       ELSE third(Component(Tail(e2)), AfterComponent(Tail(e2)))
              IN IF e1 = <<>> THEN SqlitePath("TABLE", table, Null, Null)
                 ELSE second(Component(Tail(e1)), AfterComponent(Tail(e1)))
        IN IF ~mdbfs_path_is_absolute(n) THEN NoPath
           ELSE IF n = Root THEN SqlitePath("DATABASE", Null, Null, Null)
           ELSE first(Component(Tail(n)), AfterComponent(Tail(n)))
  IN normalized(mdbfs_path_lexically_normal(path))

(***************************************************************************)
(* berkeleydb/fuseops.c: the key a path names.                             *)
(***************************************************************************)
\* The key taken from the path as given, not normalized.
key_from_path_raw(path) ==
  IF ~HasRootDirectory(path) THEN Null
  ELSE IF path = Root THEN <<>>
  ELSE IF AfterComponent(Tail(path)) # <<>> THEN Null
  ELSE Component(Tail(path))

key_from_path(path) ==
  LET normalized(n) ==
        IF ~mdbfs_path_is_absolute(n) THEN Null
        ELSE IF n = Root THEN <<>>
        ELSE IF AfterComponent(Tail(n)) # <<>> THEN Null
        ELSE Component(Tail(n))
  IN normalized(mdbfs_path_lexically_normal(path))

(***************************************************************************)
(* errno values the callbacks return negated.                              *)
(***************************************************************************)
ENOENT == 2
EINTR == 4
EACCES == 13
EISDIR == 21
EINVAL == 22
ENOSPC == 28
EROFS == 30

(***************************************************************************)
(* The environment of one file system call.                                *)
(*   fail: the number of the engine call (statement, cursor, get, put,     *)
(*         del) within this file system call that the engine fails, 0 for  *)
(*         none;                                                           *)
(*   ub:   what undefined behaviour does in this build when the call       *)
(*         executes it: "benign" (the read of a null or indeterminate      *)
(*         pointer goes unnoticed) or "trap" (the process is killed).      *)
(* A call meets at most one of the two.                                    *)
(***************************************************************************)
MaxFail == 3

Calm == [fail |-> 0, ub |-> "benign"]

Envs ==
  {Calm} \cup {[fail |-> k, ub |-> "benign"] : k \in 1..MaxFail}
         \cup {[fail |-> 0, ub |-> "trap"]}

(***************************************************************************)
(* The SQLite engine as dbmgr.c consumes it.  A database is the sequence   *)
(* of its tables in sqlite_master order; a table has its column names in   *)
(* declaration order and its rows in ROWID order; a row has its ROWID (as  *)
(* the text SQLite renders it) and one value per column, a text or the SQL *)
(* NULL (Null).                                                            *)
(***************************************************************************)
Index(seq, P(_)) ==
  IF \E i \in 1..Len(seq) : P(seq[i])
    THEN CHOOSE i \in 1..Len(seq) : P(seq[i]) /\ \A j \in 1..(i - 1) : ~P(seq[j])
    ELSE 0

TableIndex(db, t) == Index(db, LAMBDA x : x.name = t)
ColumnIndex(tbl, c) == Index(tbl.cols, LAMBDA x : x = c)

\* A double-quoted token in an expression: the column of that name if the
\* table has one, a string literal otherwise.
DqValue(tbl, row, tok) ==
  IF ColumnIndex(tbl, tok) # 0 THEN row.vals[ColumnIndex(tbl, tok)] ELSE tok

\* WHERE "ROWID" = "<tok>": the token is compared as a number with the
\* integer ROWID; a text equals it when it is the ROWID's decimal text.
RowidIs(tbl, row, tok) ==
  LET v == DqValue(tbl, row, tok) IN v # Null /\ v = row.id

MatchingRows(tbl, tok) == SelectSeq(tbl.rows, LAMBDA r : RowidIs(tbl, r, tok))

(***************************************************************************)
(* sqlite/dbmgr.c.  A list result is [ok, names, trapped]: ok is FALSE for *)
(* a NULL return; trapped says the call executed undefined behaviour that  *)
(* killed the process.  fault says the engine fails this statement.        *)
(***************************************************************************)
NullList == [ok |-> FALSE, names |-> <<>>, trapped |-> FALSE]

\* mdbfs_realloc has no return statement: the caller uses an indeterminate
\* value as the list, and the build decides what that does.
ListOf(names, ub) ==
  IF ub = "trap" THEN [ok |-> FALSE, names |-> <<>>, trapped |-> TRUE]
  ELSE [ok |-> TRUE, names |-> names, trapped |-> FALSE]

mdbfs_backend_sqlite_get_table_names(db, fault, ub) ==
  IF fault THEN NullList
  ELSE ListOf([i \in 1..Len(db) |-> db[i].name], ub)

mdbfs_backend_sqlite_get_row_names(db, fault, ub, t) ==
  IF t = Null \/ fault \/ TableIndex(db, t) = 0 THEN NullList
  ELSE LET tbl == db[TableIndex(db, t)]
       IN ListOf([i \in 1..Len(tbl.rows) |-> tbl.rows[i].id], ub)

mdbfs_backend_sqlite_get_column_names(db, fault, ub, t, r) ==
  IF t = Null \/ fault \/ TableIndex(db, t) = 0 THEN NullList
  ELSE LET tbl == db[TableIndex(db, t)]
       IN IF MatchingRows(tbl, r) = <<>> THEN NullList
          ELSE ListOf(tbl.cols, ub)

NullCell == [ok |-> FALSE, data |-> <<>>]

mdbfs_backend_sqlite_get_cell(db, fault, t, r, c) ==
  IF t = Null \/ r = Null \/ c = Null THEN NullCell
  ELSE IF fault \/ TableIndex(db, t) = 0 THEN NullCell
  ELSE LET tbl == db[TableIndex(db, t)]
           hit == MatchingRows(tbl, r)
       IN IF hit = <<>> THEN NullCell
          ELSE LET cell == DqValue(tbl, hit[1], c)
               IN IF cell = Null THEN NullCell          \* "unexpected null"
                  ELSE IF cell = c THEN NullCell        \* "the column does not exist"
                  ELSE [ok |-> TRUE, data |-> cell]

\* UPDATE "t" SET "c" = "<content>" WHERE "ROWID" = "<r>"
UpdateSetWhere(db, t, c, content, r) ==
  IF TableIndex(db, t) = 0 THEN db
  ELSE LET ti == TableIndex(db, t)
           tbl == db[ti]
           ci == ColumnIndex(tbl, c)
       IN IF ci = 0 THEN db
          ELSE [db EXCEPT ![ti].rows =
                  [i \in 1..Len(tbl.rows) |->
                     IF RowidIs(tbl, tbl.rows[i], r)
                       THEN [tbl.rows[i] EXCEPT
                               !.vals[ci] = DqValue(tbl, tbl.rows[i], content)]
                       ELSE tbl.rows[i]]]

\* A manager mutation returns [r, db]: its int result and the database after.
\* content is the NUL-terminated string at the buffer's address: the
\* content_length argument is not used.
mdbfs_backend_sqlite_set_cell(db, fault, content, t, r, c) ==
  IF t = Null \/ r = Null \/ c = Null THEN [r |-> 0, db |-> db]
  ELSE [r |-> 1, db |-> IF fault THEN db ELSE UpdateSetWhere(db, t, c, content, r)]

\* ALTER TABLE "old" RENAME TO "new"
mdbfs_backend_sqlite_rename_table(db, fault, old, new) ==
  IF old = Null \/ new = Null THEN [r |-> 0, db |-> db]
  ELSE [r |-> 1,
        db |-> IF fault \/ TableIndex(db, old) = 0 \/ TableIndex(db, new) # 0
                     \/ new = <<>>
                 THEN db
                 ELSE [db EXCEPT ![TableIndex(db, old)].name = new]]

\* ALTER TABLE "t" RENAME COLUMN "old" TO "new"
mdbfs_backend_sqlite_rename_column(db, fault, t, old, new) ==
  IF t = Null \/ old = Null \/ new = Null THEN [r |-> 0, db |-> db]
  ELSE [r |-> 1,
        db |-> IF fault \/ TableIndex(db, t) = 0 THEN db
               ELSE LET ti == TableIndex(db, t)
                        ci == ColumnIndex(db[ti], old)
                    IN IF ci = 0 \/ ColumnIndex(db[ti], new) # 0 \/ new = <<>>
                         THEN db
                         ELSE [db EXCEPT ![ti].cols[ci] = new]]

\* The UPDATE format takes five strings and is given three: vsnprintf reads
\* two indeterminate arguments.  Where that goes unnoticed the statement
\* names no column and changes nothing.
mdbfs_backend_sqlite_rename_row(db, ub, t, old, new) ==
  IF t = Null \/ old = Null \/ new = Null
    THEN [r |-> 0, db |-> db, trapped |-> FALSE]
    ELSE [r |-> 1, db |-> db, trapped |-> (ub = "trap")]

\* ALTER TABLE "t" ADD COLUMN "c"
mdbfs_backend_sqlite_create_column(db, fault, t, c) ==
  IF t = Null \/ c = Null THEN [r |-> 0, db |-> db]
  ELSE [r |-> 1,
        db |-> IF fault \/ TableIndex(db, t) = 0 THEN db
               ELSE LET ti == TableIndex(db, t)
                        tbl == db[ti]
                    IN IF ColumnIndex(tbl, c) # 0 \/ c = <<>> THEN db
                       ELSE [db EXCEPT
                               ![ti].cols = Append(tbl.cols, c),
                               ![ti].rows = [i \in 1..Len(tbl.rows) |->
                                  [tbl.rows[i] EXCEPT !.vals = Append(@, Null)]]]]

\* DROP TABLE "t"
mdbfs_backend_sqlite_remove_table(db, fault, t) ==
  IF t = Null THEN [r |-> 0, db |-> db]
  ELSE [r |-> 1,
        db |-> IF fault THEN db ELSE SelectSeq(db, LAMBDA x : x.name # t)]

\* DELETE FROM "t" WHERE "ROWID" = "<r>"
mdbfs_backend_sqlite_remove_row(db, fault, t, r) ==
  IF t = Null \/ r = Null THEN [r |-> 0, db |-> db]
  ELSE [r |-> 1,
        db |-> IF fault \/ TableIndex(db, t) = 0 THEN db
               ELSE LET ti == TableIndex(db, t)
                        tbl == db[ti]
                    IN [db EXCEPT ![ti].rows =
                          SelectSeq(tbl.rows, LAMBDA x : ~RowidIs(tbl, x, r))]]

(***************************************************************************)
(* sqlite-fuse.c: the callbacks.  A callback's result is a record:         *)
(*   outcome: "returned", or "crashed" when the process was killed;        *)
(*   ret:     the int returned;                                            *)
(*   db:      the database after the call;                                 *)
(*   data:    the bytes copied into the caller's buffer (read);            *)
(*   entries: the filler invocations in order (readdir);                   *)
(*   mode, size: the struct stat filled in (getattr).                      *)
(***************************************************************************)
Stray == "?"        \* a byte read from beyond the end of an allocation

ModeNone == "0"
ModeDir == "S_IFDIR|0755"
ModeReg == "S_IFREG|0644"

Returned(ret, db) ==
  [outcome |-> "returned", ret |-> ret, db |-> db, data |-> <<>>,
   entries |-> <<>>, mode |-> ModeNone, size |-> 0]

Crashed(db) ==
  [outcome |-> "crashed", ret |-> 0, db |-> db, data |-> <<>>,
   entries |-> <<>>, mode |-> ModeNone, size |-> 0]

\* The quit label of every callback hands the decoded path to
\* mdbfs_sqlite_path_free, which reads its fields without a NULL test.
mdbfs_sqlite_path_free(sp, ub, res) ==
  IF ~sp.ok /\ ub = "trap" THEN Crashed(res.db) ELSE res

\* The manager call that lists the directory sp names.
SqliteList(db, fault, ub, sp) ==
  IF sp.type = "DATABASE"
    THEN mdbfs_backend_sqlite_get_table_names(db, fault, ub)
  ELSE IF sp.type = "TABLE"
    THEN mdbfs_backend_sqlite_get_row_names(db, fault, ub, sp.table)
  ELSE mdbfs_backend_sqlite_get_column_names(db, fault, ub, sp.table, sp.row)

\* getattr that reports every file as empty.
sqlite_getattr_nosize(db, fault, ub, path) ==
  LET decoded(sp) ==
        LET queried(cell, list) ==
              IF ~sp.ok THEN mdbfs_sqlite_path_free(sp, ub, Returned(-ENOENT, db))
              ELSE IF sp.type = "COLUMN" THEN
                IF ~cell.ok THEN Returned(-ENOENT, db)
                ELSE [Returned(0, db) EXCEPT !.mode = ModeReg]
              ELSE IF list.trapped THEN Crashed(db)
              ELSE IF ~list.ok THEN Returned(-ENOENT, db)
              ELSE [Returned(0, db) EXCEPT !.mode = ModeDir]
        IN queried(mdbfs_backend_sqlite_get_cell(db, fault, sp.table, sp.row, sp.column),
                   SqliteList(db, fault, ub, sp))
  IN decoded(mdbfs_sqlite_path_from_string(path))

sqlite_getattr_at(db, fault, ub, path) ==
  LET decoded(sp) ==
        LET queried(cell, list) ==
              IF ~sp.ok THEN mdbfs_sqlite_path_free(sp, ub, Returned(-ENOENT, db))
              ELSE IF sp.type = "COLUMN" THEN
                IF ~cell.ok THEN Returned(-ENOENT, db)
                ELSE [Returned(0, db) EXCEPT !.mode = ModeReg, !.size = Len(cell.data)]
              ELSE IF list.trapped THEN Crashed(db)
              ELSE IF ~list.ok THEN Returned(-ENOENT, db)
              ELSE [Returned(0, db) EXCEPT !.mode = ModeDir]
        IN queried(mdbfs_backend_sqlite_get_cell(db, fault, sp.table, sp.row, sp.column),
                   SqliteList(db, fault, ub, sp))
  IN decoded(mdbfs_sqlite_path_from_string(path))

sqlite_getattr(db, e, path) == sqlite_getattr_at(db, e.fail = 1, e.ub, path)

\* The bytes memcpy(buf, cell + offset, copy_size) copies.
CopyFrom(content, offset, copy_size) ==
  [i \in 1..copy_size |->
     IF offset + i <= Len(content) THEN content[offset + i] ELSE Stray]

\* read that asks for the cell whatever the path names.
sqlite_read_untyped(db, e, path, bufsize, offset) ==
  LET decoded(sp) ==
        LET queried(cell) ==
              LET sized(cell_size, copy_size) ==
                    IF offset >= cell_size THEN Returned(0, db)
                    ELSE IF offset + copy_size > cell_size /\ e.ub = "trap"
                      THEN Crashed(db)
                    ELSE [Returned(copy_size, db) EXCEPT
                            !.data = CopyFrom(cell.data, offset, copy_size)]
              IN IF ~sp.ok THEN mdbfs_sqlite_path_free(sp, e.ub, Returned(-EINTR, db))
                 ELSE IF ~cell.ok THEN Returned(-ENOENT, db)
                 ELSE sized(Len(cell.data),
                            IF Len(cell.data) <= bufsize THEN Len(cell.data) ELSE bufsize)
        IN queried(mdbfs_backend_sqlite_get_cell(db, e.fail = 1, sp.table, sp.row, sp.column))
  IN decoded(mdbfs_sqlite_path_from_string(path))

sqlite_read(db, e, path, bufsize, offset) ==
  LET decoded(sp) ==
        LET queried(cell) ==
              LET sized(cell_size, copy_size) ==
                    IF offset >= cell_size THEN Returned(0, db)
                    ELSE IF offset + copy_size > cell_size /\ e.ub = "trap"
                      THEN Crashed(db)
                    ELSE [Returned(copy_size, db) EXCEPT
                            !.data = CopyFrom(cell.data, offset, copy_size)]
              IN IF ~sp.ok THEN mdbfs_sqlite_path_free(sp, e.ub, Returned(-EINTR, db))
                 ELSE IF sp.type # "COLUMN" THEN Returned(-EISDIR, db)
                 ELSE IF ~cell.ok THEN Returned(-ENOENT, db)
                 ELSE sized(Len(cell.data),
                            IF Len(cell.data) <= bufsize THEN Len(cell.data) ELSE bufsize)
        IN queried(mdbfs_backend_sqlite_get_cell(db, e.fail = 1, sp.table, sp.row, sp.column))
  IN decoded(mdbfs_sqlite_path_from_string(path))

\* write that stores the bytes whatever the offset.
sqlite_write_at_any_offset(db, e, path, bytes, stray, offset) ==
  LET decoded(sp) ==
        LET done(r) ==
              IF ~sp.ok THEN mdbfs_sqlite_path_free(sp, e.ub, Returned(-EINTR, db))
              ELSE IF r.r = 0 THEN Returned(-EINTR, db)
              ELSE Returned(Len(bytes), r.db)
        IN done(mdbfs_backend_sqlite_set_cell(db, e.fail = 1, bytes \o stray,
                                              sp.table, sp.row, sp.column))
  IN decoded(mdbfs_sqlite_path_from_string(path))

\* stray is what lies in memory between the end of the bytes written and
\* the next NUL.
sqlite_write(db, e, path, bytes, stray, offset) ==
  LET decoded(sp) ==
        LET done(r) ==
              IF offset > 0 THEN Returned(0, db)
              ELSE IF ~sp.ok THEN mdbfs_sqlite_path_free(sp, e.ub, Returned(-EINTR, db))
              ELSE IF r.r = 0 THEN Returned(-EINTR, db)
              ELSE Returned(Len(bytes), r.db)
        IN done(mdbfs_backend_sqlite_set_cell(db, e.fail = 1, bytes \o stray,
                                              sp.table, sp.row, sp.column))
  IN decoded(mdbfs_sqlite_path_from_string(path))

sqlite_mknod(db, e, path) ==
  LET decoded(sp) ==
        LET done(r) ==
              IF ~sp.ok THEN mdbfs_sqlite_path_free(sp, e.ub, Returned(-EINTR, db))
              ELSE IF sp.type # "COLUMN" THEN Returned(-EROFS, db)
              ELSE IF r.r = 0 THEN Returned(-EINTR, db)
              ELSE Returned(0, r.db)
        IN done(mdbfs_backend_sqlite_create_column(db, e.fail = 1, sp.table, sp.column))
  IN decoded(mdbfs_sqlite_path_from_string(path))

\* The manager call that renames what old names to what new names.
SqliteRenameCall(db, e, old, new) ==
  IF old.type = "TABLE" THEN
    [trapped |-> FALSE] @@
    mdbfs_backend_sqlite_rename_table(db, e.fail = 1, old.table, new.table)
  ELSE IF old.type = "ROW" THEN
    mdbfs_backend_sqlite_rename_row(db, e.ub, old.table, old.row, new.row)
  ELSE
    [trapped |-> FALSE] @@
    mdbfs_backend_sqlite_rename_column(db, e.fail = 1, old.table, old.column, new.column)

\* rename without the test of the two types.
sqlite_rename_untyped(db, e, path1, path2) ==
  LET decoded(old, new) ==
        LET done(r) ==
              IF ~old.ok THEN mdbfs_sqlite_path_free(old, e.ub, Returned(-EINTR, db))
              ELSE IF ~new.ok THEN mdbfs_sqlite_path_free(new, e.ub, Returned(-EINTR, db))
              ELSE IF old.type = "DATABASE" THEN Returned(-EROFS, db)
              ELSE IF r.trapped THEN Crashed(db)
              ELSE IF r.r = 0 THEN Returned(-ENOSPC, db)
              ELSE Returned(0, r.db)
        IN done(SqliteRenameCall(db, e, old, new))
  IN decoded(mdbfs_sqlite_path_from_string(path1), mdbfs_sqlite_path_from_string(path2))

sqlite_rename(db, e, path1, path2) ==
  LET decoded(old, new) ==
        LET done(r) ==
              IF ~old.ok THEN mdbfs_sqlite_path_free(old, e.ub, Returned(-EINTR, db))
              ELSE IF ~new.ok THEN mdbfs_sqlite_path_free(new, e.ub, Returned(-EINTR, db))
              ELSE IF old.type # new.type THEN Returned(-ENOSPC, db)
              ELSE IF old.type = "DATABASE" THEN Returned(-EROFS, db)
              ELSE IF r.trapped THEN Crashed(db)
              ELSE IF r.r = 0 THEN Returned(-ENOSPC, db)
              ELSE Returned(0, r.db)
        IN done(SqliteRenameCall(db, e, old, new))
  IN decoded(mdbfs_sqlite_path_from_string(path1), mdbfs_sqlite_path_from_string(path2))

sqlite_unlink(db, e, path) == Returned(-EROFS, db)

sqlite_mkdir(db, e, path) == Returned(-EROFS, db)

\* rmdir without the test for the database path.
sqlite_rmdir_root(db, e, path) ==
  LET decoded(sp) ==
        LET done(r) ==
              IF ~sp.ok THEN mdbfs_sqlite_path_free(sp, e.ub, Returned(-EINTR, db))
              ELSE IF sp.column # Null THEN Returned(-EINTR, db)
              ELSE IF r.r = 0 THEN Returned(-EINTR, db)
              ELSE Returned(0, r.db)
        IN done(IF sp.type = "TABLE"
                  THEN mdbfs_backend_sqlite_remove_table(db, e.fail = 1, sp.table)
                  ELSE mdbfs_backend_sqlite_remove_row(db, e.fail = 1, sp.table, sp.row))
  IN decoded(mdbfs_sqlite_path_from_string(path))

sqlite_rmdir(db, e, path) ==
  LET decoded(sp) ==
        LET done(r) ==
              IF ~sp.ok THEN mdbfs_sqlite_path_free(sp, e.ub, Returned(-EINTR, db))
              ELSE IF sp.column # Null THEN Returned(-EINTR, db)
              ELSE IF sp.type = "DATABASE" THEN Returned(-EACCES, db)
              ELSE IF r.r = 0 THEN Returned(-EINTR, db)
              ELSE Returned(0, r.db)
        IN done(IF sp.type = "TABLE"
                  THEN mdbfs_backend_sqlite_remove_table(db, e.fail = 1, sp.table)
                  ELSE mdbfs_backend_sqlite_remove_row(db, e.fail = 1, sp.table, sp.row))
  IN decoded(mdbfs_sqlite_path_from_string(path))

\* The filler invocation for one name: the name and the attributes the
\* callback passes with it.
Entry(name, attr) == [name |-> name, mode |-> attr.mode, size |-> attr.size]

\* The loop of readdir over the names listed: attrs[i] is the result of the
\* getattr made for the i-th name.  The loop stops at the first failing
\* getattr where stops says so, and returns its error.
FillLoop(db, names, attrs, stops) ==
  LET bad == {i \in 1..Len(names) : attrs[i].ret < 0}
      stop == IF ~stops \/ bad = {} THEN Len(names) + 1
              ELSE CHOOSE i \in bad : \A j \in bad : i <= j
  IN [Returned(IF stop <= Len(names) THEN attrs[stop].ret ELSE 0, db) EXCEPT
        !.entries = [i \in 1..(stop - 1) |-> Entry(names[i], attrs[i])]]

\* readdir whose loops end one name early.
sqlite_readdir_short(db, e, path, offset) ==
  LET decoded(sp) ==
        LET listed(list) ==
              IF offset > 0 THEN Returned(0, db)
              ELSE IF ~sp.ok THEN mdbfs_sqlite_path_free(sp, e.ub, Returned(-EINTR, db))
              ELSE IF sp.type = "COLUMN" THEN Returned(-ENOENT, db)
              ELSE IF list.trapped THEN Crashed(db)
              ELSE IF ~list.ok THEN Returned(-ENOENT, db)
              ELSE FillLoop(db, Front(list.names),
                            [i \in 1..(Len(list.names) - 1) |->
                               sqlite_getattr_at(db, e.fail = i + 1, e.ub, path)],
                            sp.type # "DATABASE")
        IN listed(SqliteList(db, e.fail = 1, e.ub, sp))
  IN decoded(mdbfs_sqlite_path_from_string(path))

sqlite_readdir(db, e, path, offset) ==
  LET decoded(sp) ==
        LET listed(list) ==
              IF offset > 0 THEN Returned(0, db)
              ELSE IF ~sp.ok THEN mdbfs_sqlite_path_free(sp, e.ub, Returned(-EINTR, db))
              ELSE IF sp.type = "COLUMN" THEN Returned(-ENOENT, db)
              ELSE IF list.trapped THEN Crashed(db)
              ELSE IF ~list.ok THEN Returned(-ENOENT, db)
              ELSE FillLoop(db, list.names,
                            [i \in 1..Len(list.names) |->
                               sqlite_getattr_at(db, e.fail = i + 1, e.ub, path)],
                            sp.type # "DATABASE")
        IN listed(SqliteList(db, e.fail = 1, e.ub, sp))
  IN decoded(mdbfs_sqlite_path_from_string(path))

(***************************************************************************)
(* The Berkeley DB engine as berkeleydb/dbmgr.c consumes it.  A database   *)
(* is a function from its keys to their values.                            *)
(***************************************************************************)
Put(db, key, value) ==
  [k \in (DOMAIN db) \cup {key} |-> IF k = key THEN value ELSE db[k]]

Del(db, key) == [k \in (DOMAIN db) \ {key} |-> db[k]]

RECURSIVE CursorOrder(_)
\* The keys in the order a cursor walks them with DB_NEXT.
CursorOrder(keys) ==
  IF keys = {} THEN <<>>
  ELSE LET k == CHOOSE x \in keys : TRUE
       IN <<k>> \o CursorOrder(keys \ {k})

(***************************************************************************)
(* berkeleydb/dbmgr.c                                                      *)
(***************************************************************************)
mdbfs_backend_berkeleydb_get_record_keys(db, fault, ub) ==
  IF fault THEN NullList ELSE ListOf(CursorOrder(DOMAIN db), ub)

mdbfs_backend_berkeleydb_get_record_value(db, fault, key) ==
  IF fault \/ key \notin DOMAIN db THEN NullCell
  ELSE [ok |-> TRUE, data |-> db[key]]

\* set_record_value with DB_NOOVERWRITE: an existing record is kept.
set_record_value_nooverwrite(db, fault, key, value) ==
  IF fault THEN [r |-> 0, db |-> db]
  ELSE [r |-> 1, db |-> IF key \in DOMAIN db THEN db ELSE Put(db, key, value)]

mdbfs_backend_berkeleydb_set_record_value(db, fault, key, value) ==
  IF fault THEN [r |-> 0, db |-> db] ELSE [r |-> 1, db |-> Put(db, key, value)]

\* rename_record that puts the value under the new key and keeps the old
\* record.
rename_record_copy(db, fail, key_old, key_new) ==
  IF fail = 1 \/ key_old \notin DOMAIN db THEN [r |-> 0, db |-> db]
  ELSE IF fail = 2 THEN [r |-> 0, db |-> db]
  ELSE IF fail = 3 THEN [r |-> 0, db |-> db]
  ELSE [r |-> 1, db |-> Put(db, key_new, db[key_old])]

\* get, del and put are the engine calls 1, 2 and 3; fail names the one
\* that fails.
mdbfs_backend_berkeleydb_rename_record(db, fail, key_old, key_new) ==
  IF fail = 1 \/ key_old \notin DOMAIN db THEN [r |-> 0, db |-> db]
  ELSE IF fail = 2 THEN [r |-> 0, db |-> db]
  ELSE IF fail = 3 THEN [r |-> 0, db |-> Del(db, key_old)]
  ELSE [r |-> 1, db |-> Put(Del(db, key_old), key_new, db[key_old])]

mdbfs_backend_berkeleydb_create_record(db, fault, key_new) ==
  IF fault THEN [r |-> 0, db |-> db] ELSE [r |-> 1, db |-> Put(db, key_new, <<>>)]

\* remove_record that reports success for a key the database does not hold.
remove_record_silent(db, fault, key) ==
  IF fault THEN [r |-> 0, db |-> db] ELSE [r |-> 1, db |-> Del(db, key)]

mdbfs_backend_berkeleydb_remove_record(db, fault, key) ==
  IF fault \/ key \notin DOMAIN db THEN [r |-> 0, db |-> db]
  ELSE [r |-> 1, db |-> Del(db, key)]

(***************************************************************************)
(* berkeleydb/fuseops.c: the callbacks.                                    *)
(***************************************************************************)
bdb_getattr_at(db, fault, path) ==
  LET decoded(key) ==
        LET queried(value) ==
              IF key = Null THEN Returned(-ENOENT, db)
              ELSE IF key = <<>> THEN [Returned(0, db) EXCEPT !.mode = ModeDir]
              ELSE IF ~value.ok THEN Returned(-ENOENT, db)
              ELSE [Returned(0, db) EXCEPT !.mode = ModeReg, !.size = Len(value.data)]
        IN queried(mdbfs_backend_berkeleydb_get_record_value(db, fault, key))
  IN decoded(key_from_path(path))

bdb_getattr(db, e, path) == bdb_getattr_at(db, e.fail = 1, path)

\* read that removes the record it has read.
bdb_read_consuming(db, e, path, bufsize, offset) ==
  LET decoded(key) ==
        LET queried(content) ==
              LET sized(content_size, copy_size) ==
                    IF offset >= content_size THEN Returned(0, db)
                    ELSE IF offset + copy_size > content_size /\ e.ub = "trap"
                      THEN Crashed(db)
                    ELSE [Returned(copy_size, Del(db, key)) EXCEPT
                            !.data = CopyFrom(content.data, offset, copy_size)]
              IN IF key = Null THEN Returned(-EINVAL, db)
                 ELSE IF ~content.ok THEN Returned(-EINVAL, db)
                 ELSE sized(Len(content.data),
                            IF Len(content.data) <= bufsize
                              THEN Len(content.data) ELSE bufsize)
        IN queried(mdbfs_backend_berkeleydb_get_record_value(db, e.fail = 1, key))
  IN decoded(key_from_path(path))

bdb_read(db, e, path, bufsize, offset) ==
  LET decoded(key) ==
        LET queried(content) ==
              LET sized(content_size, copy_size) ==
                    IF offset >= content_size THEN Returned(0, db)
                    ELSE IF offset + copy_size > content_size /\ e.ub = "trap"
                      THEN Crashed(db)
                    ELSE [Returned(copy_size, db) EXCEPT
                            !.data = CopyFrom(content.data, offset, copy_size)]
              IN IF key = Null THEN Returned(-EINVAL, db)
                 ELSE IF ~content.ok THEN Returned(-EINVAL, db)
                 ELSE sized(Len(content.data),
                            IF Len(content.data) <= bufsize
                              THEN Len(content.data) ELSE bufsize)
        IN queried(mdbfs_backend_berkeleydb_get_record_value(db, e.fail = 1, key))
  IN decoded(key_from_path(path))

bdb_write(db, e, path, bytes, offset) ==
  LET decoded(key) ==
        LET done(r) ==
              IF offset > 0 THEN Returned(0, db)
              ELSE IF key = Null THEN Returned(-EINVAL, db)
              ELSE IF r.r = 0 THEN Returned(-EINVAL, db)
              ELSE Returned(Len(bytes), r.db)
        IN done(mdbfs_backend_berkeleydb_set_record_value(db, e.fail = 1, key, bytes))
  IN decoded(key_from_path(path))

bdb_mknod(db, e, path) ==
  LET decoded(key) ==
        LET done(r) ==
              IF key = Null THEN Returned(-EINVAL, db)
              ELSE IF r.r = 0 THEN Returned(-EINVAL, db)
              ELSE Returned(0, r.db)
        IN done(mdbfs_backend_berkeleydb_create_record(db, e.fail = 1, key))
  IN decoded(key_from_path(path))

bdb_rename(db, e, path1, path2) ==
  LET decoded(key_old, key_new) ==
        LET done(r) ==
              IF key_old = Null THEN Returned(-EINVAL, db)
              ELSE IF key_new = Null THEN Returned(-EINVAL, db)
              ELSE IF r.r = 0 THEN Returned(-EINVAL, r.db)
              ELSE Returned(0, r.db)
        IN done(mdbfs_backend_berkeleydb_rename_record(db, e.fail, key_old, key_new))
  IN decoded(key_from_path(path1), key_from_path(path2))

bdb_unlink(db, e, path) ==
  LET decoded(key) ==
        LET done(r) ==
              IF key = Null THEN Returned(-EINVAL, db)
              ELSE IF r.r = 0 THEN Returned(-EINVAL, db)
              ELSE Returned(0, r.db)
        IN done(mdbfs_backend_berkeleydb_remove_record(db, e.fail = 1, key))
  IN decoded(key_from_path(path))

\* Every key listed is shown, the empty one too.
ShownAll(names) == names

\* The names readdir shows: the keys listed, the empty key skipped.
Shown(names) == SelectSeq(names, LAMBDA k : k # <<>>)

bdb_readdir(db, e, path, offset) ==
  LET decoded(key) ==
        LET listed(record_keys) ==
              IF offset > 0 THEN Returned(0, db)
              ELSE IF key = Null THEN Returned(-ENOENT, db)
              ELSE IF key # <<>> THEN Returned(-ENOENT, db)
              ELSE IF record_keys.trapped THEN Crashed(db)
              ELSE IF ~record_keys.ok THEN Returned(-EINVAL, db)
              ELSE FillLoop(db, Shown(record_keys.names),
                            [i \in 1..Len(Shown(record_keys.names)) |->
                               bdb_getattr_at(db, e.fail = i + 1,
                                   <<Slash>> \o Shown(record_keys.names)[i])],
                            FALSE)
        IN listed(mdbfs_backend_berkeleydb_get_record_keys(db, e.fail = 1, e.ub))
  IN decoded(key_from_path(path))

(***************************************************************************)
(* backends/list.h and backend.c: the registry and its lookup.             *)
(***************************************************************************)
mdbfs_backends ==
  << [name |-> <<"s","q","l","i","t","e">>, backend |-> "sqlite"],
     [name |-> <<"s","q","l","i","t","e","3">>, backend |-> "sqlite"],
     [name |-> <<"b","e","r","k","e","l","e","y","d","b">>, backend |-> "berkeleydb"],
     [name |-> <<"b","d","b">>, backend |-> "berkeleydb"],
     [name |-> <<"d","b">>, backend |-> "berkeleydb"] >>

mdbfs_backend_get(name) ==
  LET i == Index(mdbfs_backends, LAMBDA x : x.name = name)
  IN IF i = 0 THEN "none" ELSE mdbfs_backends[i].backend

(***************************************************************************)
(* The managers' open and close.  A handle is "NULL", "open", or "failed"  *)
(* (what sqlite3_open_v2 leaves behind when it fails).  FileOpens says     *)
(* whether the engine can open the file at a path.  calls are the engine   *)
(* calls made that create or release an engine handle, in order; db_create *)
(* is taken to succeed.                                                    *)
(***************************************************************************)
GoodFile == <<"g">>
MissingFile == <<"m">>

FileOpens(path) == path = GoodFile

mdbfs_backend_berkeleydb_close_database(h) ==
  IF h = "NULL" THEN [h |-> "NULL", calls |-> <<>>]
  ELSE [h |-> "NULL", calls |-> <<"DB->close">>]

mdbfs_backend_berkeleydb_open_database_from_file(h, path) ==
  LET dropped == IF h = "NULL" THEN <<>>
                 ELSE mdbfs_backend_berkeleydb_close_database(h).calls
  IN IF path = Null THEN [r |-> 0, h |-> h, calls |-> <<>>]
     ELSE IF ~FileOpens(path)
       THEN [r |-> 0, h |-> "NULL",
             calls |-> dropped \o <<"db_create", "DB->open error">>
                         \o mdbfs_backend_berkeleydb_close_database("failed").calls]
     ELSE [r |-> 1, h |-> "open",
           calls |-> dropped \o <<"db_create", "DB->open ok">>]

mdbfs_backend_sqlite_close_database(h) ==
  IF h = "NULL" THEN [h |-> "NULL", calls |-> <<>>]
  ELSE [h |-> "NULL", calls |-> <<"sqlite3_close">>]

\* A handle already held is set to NULL, not closed.
mdbfs_backend_sqlite_open_database_from_file(h, path) ==
  IF path = Null THEN [r |-> 0, h |-> h, calls |-> <<>>]
  ELSE IF ~FileOpens(path)
    THEN [r |-> 0, h |-> "failed", calls |-> <<"sqlite3_open_v2 error">>]
  ELSE [r |-> 1, h |-> "open", calls |-> <<"sqlite3_open_v2 ok">>]

(***************************************************************************)
(* The backend descriptors.  The Berkeley DB one is berkeleydb/mdbfs.c;    *)
(* the SQLite one follows the descriptor contract of backend.h: its init   *)
(* reports success or failure, and its open and close are the manager's.   *)
(***************************************************************************)
mdbfs_backend_berkeleydb_init(o) == 1

mdbfs_backend_sqlite_init(o) == IF o.init_ok THEN 1 ELSE 0

BackendInit(b, o) ==
  IF b = "sqlite" THEN mdbfs_backend_sqlite_init(o)
  ELSE mdbfs_backend_berkeleydb_init(o)

BackendOpen(b, h, path) ==
  IF b = "sqlite" THEN mdbfs_backend_sqlite_open_database_from_file(h, path)
  ELSE mdbfs_backend_berkeleydb_open_database_from_file(h, path)

(***************************************************************************)
(* main.c: main() up to the point where it enters fuse_main or returns.    *)
(* The result gives the position reached, the lifecycle calls made, the    *)
(* value returned if it returned, the descriptor held and its handle.      *)
(***************************************************************************)
Exit(r, tr, b, h) ==
  [pc |-> "exited", trace |-> tr, exit_code |-> r, backend |-> b, h |-> h]

Mount(tr, b, h) ==
  [pc |-> "mounted", trace |-> Append(tr, "fuse_main"), exit_code |-> 0,
   backend |-> b, h |-> h]

\* main() with the test for the backend type made before the test for the
\* database path.
main_type_first(o) ==
  LET b == mdbfs_backend_get(o.type)
      t1 == <<"fuse_opt_parse">>
      t2 == Append(t1, "mdbfs_backend_get")
      t3 == Append(t2, "init")
      t4 == Append(t3, "open")
      opened == BackendOpen(b, "NULL", o.path)
  IN IF o.parse # 0 THEN Exit(1, t1, "none", "NULL")
     ELSE IF o.show_help THEN Mount(Append(t1, "show_help"), "none", "NULL")
     ELSE IF o.show_version THEN Exit(0, Append(t1, "show_version"), "none", "NULL")
     ELSE IF o.type = Null THEN Exit(1, t1, "none", "NULL")
     ELSE IF o.path = Null THEN Exit(2, t1, "none", "NULL")
     ELSE IF b = "none" THEN Exit(1, t2, "none", "NULL")
     ELSE IF BackendInit(b, o) = 0 THEN Exit(1, t3, b, "NULL")
     ELSE IF opened.r <= 0 THEN Exit(-opened.r, Append(t4, "deinit"), b, opened.h)
     ELSE Mount(t4, b, opened.h)

\* main() that returns on an open failure without calling deinit.
main_without_deinit(o) ==
  LET b == mdbfs_backend_get(o.type)
      t1 == <<"fuse_opt_parse">>
      t2 == Append(t1, "mdbfs_backend_get")
      t3 == Append(t2, "init")
      t4 == Append(t3, "open")
      opened == BackendOpen(b, "NULL", o.path)
  IN IF o.parse # 0 THEN Exit(1, t1, "none", "NULL")
     ELSE IF o.show_help THEN Mount(Append(t1, "show_help"), "none", "NULL")
     ELSE IF o.show_version THEN Exit(0, Append(t1, "show_version"), "none", "NULL")
     ELSE IF o.path = Null THEN Exit(2, t1, "none", "NULL")
     ELSE IF o.type = Null THEN Exit(1, t1, "none", "NULL")
     ELSE IF b = "none" THEN Exit(1, t2, "none", "NULL")
     ELSE IF BackendInit(b, o) = 0 THEN Exit(1, t3, b, "NULL")
     ELSE IF opened.r <= 0 THEN Exit(-opened.r, t4, b, opened.h)
     ELSE Mount(t4, b, opened.h)

main(o) ==
  LET b == mdbfs_backend_get(o.type)
      t1 == <<"fuse_opt_parse">>
      t2 == Append(t1, "mdbfs_backend_get")
      t3 == Append(t2, "init")
      t4 == Append(t3, "open")
      opened == BackendOpen(b, "NULL", o.path)
  IN IF o.parse # 0 THEN Exit(1, t1, "none", "NULL")
     ELSE IF o.show_help THEN Mount(Append(t1, "show_help"), "none", "NULL")
     ELSE IF o.show_version THEN Exit(0, Append(t1, "show_version"), "none", "NULL")
     ELSE IF o.path = Null THEN Exit(2, t1, "none", "NULL")
     ELSE IF o.type = Null THEN Exit(1, t1, "none", "NULL")
     ELSE IF b = "none" THEN Exit(1, t2, "none", "NULL")
     ELSE IF BackendInit(b, o) = 0 THEN Exit(1, t3, b, "NULL")
     ELSE IF opened.r <= 0 THEN Exit(-opened.r, Append(t4, "deinit"), b, opened.h)
     ELSE Mount(t4, b, opened.h)

(***************************************************************************)
(* Inputs.                                                                 *)
(***************************************************************************)
\* The path that names the given components: "/" followed by the
\* components joined by "/".
Abs(comps) == <<Slash>> \o JoinSlash(comps)

InitSdb ==
  << [name |-> <<"t">>, cols |-> << <<"c">>, <<"d">> >>,
      rows |-> << [id |-> <<"1">>, vals |-> << <<"a", "b">>, <<"x">> >>],
                  [id |-> <<"2">>, vals |-> << Null, <<"d">> >>] >>],
     [name |-> <<"u">>, cols |-> << <<"c">> >>, rows |-> << >>] >>

InitKdb ==
  [k \in {<<"k">>, <<>>, Dot} |->
     IF k = <<"k">> THEN <<"a", "b">> ELSE IF k = <<>> THEN <<"e">> ELSE <<"x">>]

SqlitePaths ==
  { Abs(<< >>), Abs(<< <<"t">> >>), Abs(<< <<"u">> >>), Abs(<< <<"v">> >>),
    Abs(<< <<"t">>, <<"1">> >>), Abs(<< <<"t">>, <<"3">> >>),
    Abs(<< <<"t">>, <<"1">>, <<"c">> >>), Abs(<< <<"t">>, <<"1">>, <<"d">> >>),
    Abs(<< <<"t">>, <<"2">>, <<"c">> >>), Abs(<< <<"t">>, <<"1">>, <<"e">> >>),
    Abs(<< <<"t">>, <<"1">>, <<"c">>, <<"x">> >>),
    Abs(<< <<"t">>, <<>>, <<"1">>, Dot, <<"c">> >>) }

BdbPaths ==
  { Abs(<< >>), Abs(<< <<"k">> >>), Abs(<< <<"n">> >>), Abs(<< Dot >>),
    Abs(<< <<"k">>, <<"x">> >>), Abs(<< <<>>, <<"k">> >>) }

Contents == { <<>>, <<"d">>, <<"x", "y">> }
Strays == { <<>>, <<"z">> }
FuseRets == {0, 1}

Types == { Null, <<"s","q","l","i","t","e">>, <<"d","b">>, <<"x">> }

Opts ==
  { o \in [parse : {0, -1}, type : Types, path : {Null, GoodFile, MissingFile},
           show_help : BOOLEAN, show_version : BOOLEAN, init_ok : BOOLEAN] :
      o.init_ok \/ mdbfs_backend_get(o.type) = "sqlite" }

Segs == { <<>>, Dot, DotDot, <<"a">>, <<"b">> }

PathInputs ==
  { JoinSlash(ps) : ps \in UNION { [1..n -> Segs] : n \in 1..MaxSegs } }

(***************************************************************************)
(* The call observed: the callback, its arguments, the environment it ran  *)
(* in, the database before, and its result.  For the decoders, decoded,    *)
(* key and normal hold what they returned.                                 *)
(***************************************************************************)
Idle ==
  [op |-> "idle", path |-> <<>>, path2 |-> <<>>, bytes |-> <<>>, stray |-> <<>>,
   bufsize |-> 0, offset |-> 0, env |-> Calm, pre |-> <<>>,
   res |-> Returned(0, <<>>), decoded |-> NoPath, key |-> Null, normal |-> <<>>]

\* An environment is recorded only where it matters: the callback does not
\* do the same without the fault.
Felt(e, f(_)) == e = Calm \/ f(e) # f(Calm)

Init ==
  /\ pc = "start"
  /\ opts \in Opts
  /\ backend = "none"
  /\ sdb = InitSdb
  /\ kdb = InitKdb
  /\ g_db = "NULL"
  /\ trace = <<>>
  /\ exit_code = 0
  /\ muts = 0
  /\ call = Idle

\* main() from its entry to fuse_main or to its return.
Startup ==
  /\ pc = "start"
  /\ LET m == main(opts)
     IN /\ pc' = m.pc
        /\ trace' = m.trace
        /\ exit_code' = m.exit_code
        /\ backend' = m.backend
        /\ g_db' = m.h
  /\ UNCHANGED <<opts, sdb, kdb, muts, call>>

\* fuse_main returns r: the host has called destroy, main() returns r.  The
\* call observed is fuse_main with the value it returned.
FuseMainReturn ==
  /\ pc = "mounted"
  /\ call.op = "idle"
  /\ \E r \in FuseRets :
       /\ exit_code' = r
       /\ pc' = "exited"
       /\ call' = [Idle EXCEPT !.op = "fuse_main", !.res = Returned(r, <<>>)]
  /\ IF backend = "none"
       THEN UNCHANGED <<trace, g_db>>
       ELSE /\ trace' = Append(trace, "destroy")
            /\ g_db' = IF backend = "sqlite"
                         THEN mdbfs_backend_sqlite_close_database(g_db).h
                         ELSE mdbfs_backend_berkeleydb_close_database(g_db).h
  /\ UNCHANGED <<opts, backend, sdb, kdb, muts>>

\* The host takes the callback's result.
Reply ==
  /\ pc = "mounted"
  /\ call.op # "idle"
  /\ call' = Idle
  /\ UNCHANGED <<pc, opts, backend, sdb, kdb, g_db, trace, exit_code, muts>>

Serving(b) == pc = "mounted" /\ backend = b /\ call.op = "idle"

SqliteDeliver(c, f(_), mut) ==
  /\ Felt(c.env, f)
  /\ LET res == f(c.env)
     IN /\ call' = [c EXCEPT !.pre = sdb, !.res = res]
        /\ sdb' = res.db
        /\ pc' = IF res.outcome = "crashed" THEN "crashed" ELSE pc
  /\ muts' = muts + mut
  /\ UNCHANGED <<opts, backend, kdb, g_db, trace, exit_code>>

BdbDeliver(c, f(_), mut) ==
  /\ Felt(c.env, f)
  /\ LET res == f(c.env)
     IN /\ call' = [c EXCEPT !.pre = kdb, !.res = res]
        /\ kdb' = res.db
        /\ pc' = IF res.outcome = "crashed" THEN "crashed" ELSE pc
  /\ muts' = muts + mut
  /\ UNCHANGED <<opts, backend, sdb, g_db, trace, exit_code>>

(***************************************************************************)
(* The callbacks of the SQLite backend, as the host delivers them.         *)
(***************************************************************************)
SqliteGetattr ==
  /\ Serving("sqlite")
  /\ \E path \in SqlitePaths, e \in Envs :
       SqliteDeliver([Idle EXCEPT !.op = "getattr", !.path = path, !.env = e],
                     LAMBDA x : sqlite_getattr(sdb, x, path), 0)

SqliteRead ==
  /\ Serving("sqlite")
  /\ \E path \in SqlitePaths, bufsize \in 0..MaxBuf, offset \in 0..MaxOff, e \in Envs :
       SqliteDeliver([Idle EXCEPT !.op = "read", !.path = path, !.bufsize = bufsize,
                                  !.offset = offset, !.env = e],
                     LAMBDA x : sqlite_read(sdb, x, path, bufsize, offset), 0)

SqliteReaddir ==
  /\ Serving("sqlite")
  /\ \E path \in SqlitePaths, offset \in 0..MaxOff, e \in Envs :
       SqliteDeliver([Idle EXCEPT !.op = "readdir", !.path = path,
                                  !.offset = offset, !.env = e],
                     LAMBDA x : sqlite_readdir(sdb, x, path, offset), 0)

SqliteWrite ==
  /\ Serving("sqlite")
  /\ muts < MaxMuts
  /\ \E path \in SqlitePaths, bytes \in Contents, stray \in Strays,
        offset \in 0..MaxOff, e \in Envs :
       SqliteDeliver([Idle EXCEPT !.op = "write", !.path = path, !.bytes = bytes,
                                  !.stray = stray, !.bufsize = Len(bytes),
                                  !.offset = offset, !.env = e],
                     LAMBDA x : sqlite_write(sdb, x, path, bytes, stray, offset), 1)

SqliteMknod ==
  /\ Serving("sqlite")
  /\ muts < MaxMuts
  /\ \E path \in SqlitePaths, e \in Envs :
       SqliteDeliver([Idle EXCEPT !.op = "mknod", !.path = path, !.env = e],
                     LAMBDA x : sqlite_mknod(sdb, x, path), 1)

SqliteRename ==
  /\ Serving("sqlite")
  /\ muts < MaxMuts
  /\ \E path1 \in SqlitePaths, path2 \in SqlitePaths, e \in Envs :
       SqliteDeliver([Idle EXCEPT !.op = "rename", !.path = path1,
                                  !.path2 = path2, !.env = e],
                     LAMBDA x : sqlite_rename(sdb, x, path1, path2), 1)

SqliteUnlink ==
  /\ Serving("sqlite")
  /\ muts < MaxMuts
  /\ \E path \in SqlitePaths, e \in Envs :
       SqliteDeliver([Idle EXCEPT !.op = "unlink", !.path = path, !.env = e],
                     LAMBDA x : sqlite_unlink(sdb, x, path), 1)

SqliteMkdir ==
  /\ Serving("sqlite")
  /\ muts < MaxMuts
  /\ \E path \in SqlitePaths, e \in Envs :
       SqliteDeliver([Idle EXCEPT !.op = "mkdir", !.path = path, !.env = e],
                     LAMBDA x : sqlite_mkdir(sdb, x, path), 1)

SqliteRmdir ==
  /\ Serving("sqlite")
  /\ muts < MaxMuts
  /\ \E path \in SqlitePaths, e \in Envs :
       SqliteDeliver([Idle EXCEPT !.op = "rmdir", !.path = path, !.env = e],
                     LAMBDA x : sqlite_rmdir(sdb, x, path), 1)

(***************************************************************************)
(* The callbacks of the Berkeley DB backend, as the host delivers them.    *)
(***************************************************************************)
BdbGetattr ==
  /\ Serving("berkeleydb")
  /\ \E path \in BdbPaths, e \in Envs :
       BdbDeliver([Idle EXCEPT !.op = "getattr", !.path = path, !.env = e],
                  LAMBDA x : bdb_getattr(kdb, x, path), 0)

BdbRead ==
  /\ Serving("berkeleydb")
  /\ \E path \in BdbPaths, bufsize \in 0..MaxBuf, offset \in 0..MaxOff, e \in Envs :
       BdbDeliver([Idle EXCEPT !.op = "read", !.path = path, !.bufsize = bufsize,
                               !.offset = offset, !.env = e],
                  LAMBDA x : bdb_read(kdb, x, path, bufsize, offset), 0)

BdbReaddir ==
  /\ Serving("berkeleydb")
  /\ \E path \in BdbPaths, offset \in 0..MaxOff, e \in Envs :
       BdbDeliver([Idle EXCEPT !.op = "readdir", !.path = path,
                               !.offset = offset, !.env = e],
                  LAMBDA x : bdb_readdir(kdb, x, path, offset), 0)

BdbWrite ==
  /\ Serving("berkeleydb")
  /\ muts < MaxMuts
  /\ \E path \in BdbPaths, bytes \in Contents, offset \in 0..MaxOff, e \in Envs :
       BdbDeliver([Idle EXCEPT !.op = "write", !.path = path, !.bytes = bytes,
                               !.bufsize = Len(bytes), !.offset = offset, !.env = e],
                  LAMBDA x : bdb_write(kdb, x, path, bytes, offset), 1)

BdbMknod ==
  /\ Serving("berkeleydb")
  /\ muts < MaxMuts
  /\ \E path \in BdbPaths, e \in Envs :
       BdbDeliver([Idle EXCEPT !.op = "mknod", !.path = path, !.env = e],
                  LAMBDA x : bdb_mknod(kdb, x, path), 1)

BdbRename ==
  /\ Serving("berkeleydb")
  /\ muts < MaxMuts
  /\ \E path1 \in BdbPaths, path2 \in BdbPaths, e \in Envs :
       BdbDeliver([Idle EXCEPT !.op = "rename", !.path = path1,
                               !.path2 = path2, !.env = e],
                  LAMBDA x : bdb_rename(kdb, x, path1, path2), 1)

BdbUnlink ==
  /\ Serving("berkeleydb")
  /\ muts < MaxMuts
  /\ \E path \in BdbPaths, e \in Envs :
       BdbDeliver([Idle EXCEPT !.op = "unlink", !.path = path, !.env = e],
                  LAMBDA x : bdb_unlink(kdb, x, path), 1)

Next ==
  \/ Startup
  \/ FuseMainReturn
  \/ Reply
  \/ SqliteGetattr
  \/ SqliteRead
  \/ SqliteReaddir
  \/ SqliteWrite
  \/ SqliteMknod
  \/ SqliteRename
  \/ SqliteUnlink
  \/ SqliteMkdir
  \/ SqliteRmdir
  \/ BdbGetattr
  \/ BdbRead
  \/ BdbReaddir
  \/ BdbWrite
  \/ BdbMknod
  \/ BdbRename
  \/ BdbUnlink

Spec == Init /\ [][Next]_vars

(***************************************************************************)
(* The decoders on their own: every path of up to MaxSegs pieces is given  *)
(* to the normalizer and to each backend's decoder.                        *)
(***************************************************************************)
InitPath ==
  /\ pc = "path"
  /\ opts = [parse |-> 0, type |-> Null, path |-> Null, show_help |-> FALSE,
             show_version |-> FALSE, init_ok |-> TRUE]
  /\ backend = "none"
  /\ sdb = InitSdb
  /\ kdb = InitKdb
  /\ g_db = "NULL"
  /\ trace = <<>>
  /\ exit_code = 0
  /\ muts = 0
  /\ call \in {[Idle EXCEPT !.op = "input", !.path = p] : p \in PathInputs}

LexicallyNormal ==
  /\ pc = "path"
  /\ call.op = "input"
  /\ call' = [call EXCEPT !.op = "lexically_normal",
                          !.normal = mdbfs_path_lexically_normal(call.path)]
  /\ UNCHANGED <<pc, opts, backend, sdb, kdb, g_db, trace, exit_code, muts>>

PathFromString ==
  /\ pc = "path"
  /\ call.op = "input"
  /\ call' = [call EXCEPT !.op = "path_from_string",
                          !.decoded = mdbfs_sqlite_path_from_string(call.path)]
  /\ UNCHANGED <<pc, opts, backend, sdb, kdb, g_db, trace, exit_code, muts>>

KeyFromPath ==
  /\ pc = "path"
  /\ call.op = "input"
  /\ call' = [call EXCEPT !.op = "key_from_path",
                          !.key = key_from_path(call.path)]
  /\ UNCHANGED <<pc, opts, backend, sdb, kdb, g_db, trace, exit_code, muts>>

NextPath ==
  \/ LexicallyNormal
  \/ PathFromString
  \/ KeyFromPath

SpecPath == InitPath /\ [][NextPath]_vars

(***************************************************************************)
(* The managers on their own: open, close, destroy and the manager         *)
(* operations called in any order, up to MaxCalls calls.  trace holds the  *)
(* engine calls that created or released an engine handle.  The call       *)
(* observed tells the operation, the handle it found, whether it reported  *)
(* success (a non-null result, or 1), and whether it dereferenced a handle *)
(* that was NULL.                                                          *)
(***************************************************************************)
MaxCalls == 3

MgrIdle ==
  [op |-> "none", path |-> <<>>, handle |-> "NULL", outcome |-> "returned",
   ok |-> FALSE, deref |-> FALSE]

MgrFiles == {Null, GoodFile, MissingFile}
MgrTables == { <<"t">>, <<"v">> }
Ubs == {"benign", "trap"}

InitMgr ==
  /\ pc = "manager"
  /\ opts = [parse |-> 0, type |-> Null, path |-> Null, show_help |-> FALSE,
             show_version |-> FALSE, init_ok |-> TRUE]
  /\ backend \in {"sqlite", "berkeleydb"}
  /\ sdb = InitSdb
  /\ kdb = InitKdb
  /\ g_db = "NULL"
  /\ trace = <<>>
  /\ exit_code = 0
  /\ muts = 0
  /\ call = MgrIdle

Managing(b) == pc = "manager" /\ backend = b /\ muts < MaxCalls

BackendClose(b, h) ==
  IF b = "sqlite" THEN mdbfs_backend_sqlite_close_database(h)
  ELSE mdbfs_backend_berkeleydb_close_database(h)

MgrOpen ==
  /\ pc = "manager"
  /\ muts < MaxCalls
  /\ \E path \in MgrFiles :
       LET o == BackendOpen(backend, g_db, path)
       IN /\ g_db' = o.h
          /\ trace' = trace \o o.calls
          /\ call' = [MgrIdle EXCEPT !.op = "open", !.path = path,
                                     !.handle = g_db, !.ok = (o.r = 1)]
  /\ muts' = muts + 1
  /\ UNCHANGED <<pc, opts, backend, sdb, kdb, exit_code>>

MgrClose ==
  /\ pc = "manager"
  /\ muts < MaxCalls
  /\ LET c == BackendClose(backend, g_db)
     IN /\ g_db' = c.h
        /\ trace' = trace \o c.calls
        /\ call' = [MgrIdle EXCEPT !.op = "close", !.handle = g_db, !.ok = TRUE]
  /\ muts' = muts + 1
  /\ UNCHANGED <<pc, opts, backend, sdb, kdb, exit_code>>

\* The destroy callback of either backend: it closes the database.
MgrDestroy ==
  /\ pc = "manager"
  /\ muts < MaxCalls
  /\ LET c == BackendClose(backend, g_db)
     IN /\ g_db' = c.h
        /\ trace' = trace \o c.calls
        /\ call' = [MgrIdle EXCEPT !.op = "destroy", !.handle = g_db, !.ok = TRUE]
  /\ muts' = muts + 1
  /\ UNCHANGED <<pc, opts, backend, sdb, kdb, exit_code>>

\* sqlite3_prepare_v2 on a handle that is not an open connection (NULL, or
\* left by a failed sqlite3_open_v2) returns SQLITE_MISUSE.
PrepareFails(h) == h # "open"

SqliteMgrDone(op, ok, db, trapped) ==
  /\ call' = [MgrIdle EXCEPT !.op = op, !.handle = g_db, !.ok = ok,
                             !.outcome = IF trapped THEN "crashed" ELSE "returned"]
  /\ sdb' = db
  /\ pc' = IF trapped THEN "crashed" ELSE pc
  /\ muts' = muts + 1
  /\ UNCHANGED <<opts, backend, kdb, g_db, trace, exit_code>>

SqliteMgrListed(op, list) == SqliteMgrDone(op, list.ok, sdb, list.trapped)

SqliteMgrMutated(op, r) == SqliteMgrDone(op, r.r = 1, r.db, FALSE)

MgrGetTableNames ==
  /\ Managing("sqlite")
  /\ \E ub \in Ubs :
       SqliteMgrListed("get_table_names",
         mdbfs_backend_sqlite_get_table_names(sdb, PrepareFails(g_db), ub))

MgrGetRowNames ==
  /\ Managing("sqlite")
  /\ \E t \in MgrTables, ub \in Ubs :
       SqliteMgrListed("get_row_names",
         mdbfs_backend_sqlite_get_row_names(sdb, PrepareFails(g_db), ub, t))

MgrGetColumnNames ==
  /\ Managing("sqlite")
  /\ \E t \in MgrTables, ub \in Ubs :
       SqliteMgrListed("get_column_names",
         mdbfs_backend_sqlite_get_column_names(sdb, PrepareFails(g_db), ub, t, <<"1">>))

MgrGetCell ==
  /\ Managing("sqlite")
  /\ \E t \in MgrTables :
       SqliteMgrDone("get_cell",
         mdbfs_backend_sqlite_get_cell(sdb, PrepareFails(g_db), t, <<"1">>, <<"c">>).ok,
         sdb, FALSE)

MgrSetCell ==
  /\ Managing("sqlite")
  /\ \E t \in MgrTables :
       SqliteMgrMutated("set_cell",
         mdbfs_backend_sqlite_set_cell(sdb, PrepareFails(g_db), <<"z">>, t, <<"1">>, <<"c">>))

MgrRenameTable ==
  /\ Managing("sqlite")
  /\ \E t \in MgrTables :
       SqliteMgrMutated("rename_table",
         mdbfs_backend_sqlite_rename_table(sdb, PrepareFails(g_db), t, <<"w">>))

MgrRenameColumn ==
  /\ Managing("sqlite")
  /\ \E t \in MgrTables :
       SqliteMgrMutated("rename_column",
         mdbfs_backend_sqlite_rename_column(sdb, PrepareFails(g_db), t, <<"c">>, <<"e">>))

MgrRenameRow ==
  /\ Managing("sqlite")
  /\ \E t \in MgrTables, ub \in Ubs :
       LET done(r) == SqliteMgrDone("rename_row", r.r = 1, r.db, r.trapped)
       IN done(mdbfs_backend_sqlite_rename_row(sdb, ub, t, <<"1">>, <<"3">>))

MgrCreateColumn ==
  /\ Managing("sqlite")
  /\ \E t \in MgrTables :
       SqliteMgrMutated("create_column",
         mdbfs_backend_sqlite_create_column(sdb, PrepareFails(g_db), t, <<"e">>))

MgrRemoveTable ==
  /\ Managing("sqlite")
  /\ \E t \in MgrTables :
       SqliteMgrMutated("remove_table",
         mdbfs_backend_sqlite_remove_table(sdb, PrepareFails(g_db), t))

MgrRemoveRow ==
  /\ Managing("sqlite")
  /\ \E t \in MgrTables :
       SqliteMgrMutated("remove_row",
         mdbfs_backend_sqlite_remove_row(sdb, PrepareFails(g_db), t, <<"1">>))

MgrKeys == { <<"k">>, <<"n">> }

BdbMgrDone(op, ok, db, trapped) ==
  /\ call' = [MgrIdle EXCEPT !.op = op, !.handle = g_db, !.ok = ok,
                             !.deref = (g_db = "NULL"),
                             !.outcome = IF trapped THEN "crashed" ELSE "returned"]
  /\ kdb' = db
  /\ pc' = IF trapped THEN "crashed" ELSE pc
  /\ muts' = muts + 1
  /\ UNCHANGED <<opts, backend, sdb, g_db, trace, exit_code>>

\* Every operation of the Berkeley DB manager starts by calling a method
\* through g_db.  With g_db NULL that is undefined behaviour: the process is
\* killed, or the call goes on with an indeterminate result (junk).
BdbMgrListed(op, ub, junk, list) ==
  IF g_db = "NULL" THEN BdbMgrDone(op, junk, kdb, ub = "trap")
  ELSE BdbMgrDone(op, list.ok, kdb, list.trapped)

BdbMgrMutated(op, ub, junk, r) ==
  IF g_db = "NULL" THEN BdbMgrDone(op, junk, kdb, ub = "trap")
  ELSE BdbMgrDone(op, r.r = 1, r.db, FALSE)

MgrGetRecordKeys ==
  /\ Managing("berkeleydb")
  /\ \E ub \in Ubs, junk \in BOOLEAN :
       BdbMgrListed("get_record_keys", ub, junk,
         mdbfs_backend_berkeleydb_get_record_keys(kdb, FALSE, ub))

MgrGetRecordValue ==
  /\ Managing("berkeleydb")
  /\ \E key \in MgrKeys, ub \in Ubs, junk \in BOOLEAN :
       BdbMgrListed("get_record_value", ub, junk,
         [trapped |-> FALSE] @@ mdbfs_backend_berkeleydb_get_record_value(kdb, FALSE, key))

MgrSetRecordValue ==
  /\ Managing("berkeleydb")
  /\ \E key \in MgrKeys, ub \in Ubs, junk \in BOOLEAN :
       BdbMgrMutated("set_record_value", ub, junk,
         mdbfs_backend_berkeleydb_set_record_value(kdb, FALSE, key, <<"z">>))

MgrRenameRecord ==
  /\ Managing("berkeleydb")
  /\ \E key \in MgrKeys, ub \in Ubs, junk \in BOOLEAN :
       BdbMgrMutated("rename_record", ub, junk,
         mdbfs_backend_berkeleydb_rename_record(kdb, 0, key, <<"m">>))

MgrCreateRecord ==
  /\ Managing("berkeleydb")
  /\ \E key \in MgrKeys, ub \in Ubs, junk \in BOOLEAN :
       BdbMgrMutated("create_record", ub, junk,
         mdbfs_backend_berkeleydb_create_record(kdb, FALSE, key))

MgrRemoveRecord ==
  /\ Managing("berkeleydb")
  /\ \E key \in MgrKeys, ub \in Ubs, junk \in BOOLEAN :
       BdbMgrMutated("remove_record", ub, junk,
         mdbfs_backend_berkeleydb_remove_record(kdb, FALSE, key))

NextMgr ==
  \/ MgrOpen
  \/ MgrClose
  \/ MgrDestroy
  \/ MgrGetTableNames
  \/ MgrGetRowNames
  \/ MgrGetColumnNames
  \/ MgrGetCell
  \/ MgrSetCell
  \/ MgrRenameTable
  \/ MgrRenameColumn
  \/ MgrRenameRow
  \/ MgrCreateColumn
  \/ MgrRemoveTable
  \/ MgrRemoveRow
  \/ MgrGetRecordKeys
  \/ MgrGetRecordValue
  \/ MgrSetRecordValue
  \/ MgrRenameRecord
  \/ MgrCreateRecord
  \/ MgrRemoveRecord

SpecMgr == InitMgr /\ [][NextMgr]_vars

(***************************************************************************)
(* The key-value rename step by step: _rename decodes its two paths and    *)
(* calls rename_record, which makes three engine calls, get, del and put,  *)
(* each of which the engine may fail; the process may be killed between    *)
(* two of them.  pc is the statement about to execute; trace holds the     *)
(* engine calls made, with their outcomes; the call observed holds the     *)
(* two paths, the keys decoded, the value fetched (dbt_value.data), the    *)
(* manager's ret, the database before the call and what _rename returned.  *)
(***************************************************************************)
RenameIdle ==
  [op |-> "rename", path |-> <<>>, path2 |-> <<>>, key_old |-> Null,
   key_new |-> Null, value |-> Null, ret |-> 0, pre |-> <<>>, res |-> 0]

RenameDbs == { InitKdb, Put(InitKdb, <<"n">>, <<"z">>) }

InitRename ==
  /\ pc = "rename"
  /\ opts = [parse |-> 0, type |-> Null, path |-> Null, show_help |-> FALSE,
             show_version |-> FALSE, init_ok |-> TRUE]
  /\ backend = "berkeleydb"
  /\ sdb = InitSdb
  /\ kdb \in RenameDbs
  /\ g_db = "open"
  /\ trace = <<>>
  /\ exit_code = 0
  /\ muts = 0
  /\ call = RenameIdle

\* One engine call of rename_record on db for the call c: whether it
\* returned 0, the database after it, and the value held after it.
rename_get_step(db, c, fails) ==
  IF fails \/ c.key_old \notin DOMAIN db
    THEN [ok |-> FALSE, db |-> db, value |-> c.value]
    ELSE [ok |-> TRUE, db |-> db, value |-> db[c.key_old]]

rename_del_step(db, c, fails) ==
  IF fails THEN [ok |-> FALSE, db |-> db, value |-> c.value]
  ELSE [ok |-> TRUE, db |-> Del(db, c.key_old), value |-> c.value]

\* A put that, when it fails, puts the value back under the old key.
rename_put_restoring(db, c, fails) ==
  IF fails THEN [ok |-> FALSE, db |-> Put(db, c.key_old, c.value), value |-> c.value]
  ELSE [ok |-> TRUE, db |-> Put(db, c.key_new, c.value), value |-> c.value]

rename_put_step(db, c, fails) ==
  IF fails THEN [ok |-> FALSE, db |-> db, value |-> c.value]
  ELSE [ok |-> TRUE, db |-> Put(db, c.key_new, c.value), value |-> c.value]

\* _rename up to its call of rename_record.
RenameEnter ==
  /\ pc = "rename"
  /\ \E path1 \in BdbPaths, path2 \in BdbPaths :
       LET decoded(key_old, key_new) ==
             LET c == [call EXCEPT !.path = path1, !.path2 = path2,
                                   !.key_old = key_old, !.pre = kdb]
             IN IF key_old = Null
                  THEN /\ pc' = "returned"
                       /\ call' = [c EXCEPT !.res = -EINVAL]
                ELSE IF key_new = Null
                  THEN /\ pc' = "returned"
                       /\ call' = [c EXCEPT !.res = -EINVAL]
                ELSE /\ pc' = "get"
                     /\ call' = [c EXCEPT !.key_new = key_new]
       IN decoded(key_from_path(path1), key_from_path(path2))
  /\ UNCHANGED <<opts, backend, sdb, kdb, g_db, trace, exit_code, muts>>

\* The engine call named at pc has been made with result s: on an error
\* rename_record goes to quit with ret = 0; after the last one ret is 1.
RenameStepped(name, s, next) ==
  /\ kdb' = s.db
  /\ trace' = Append(trace, IF s.ok THEN name \o " ok" ELSE name \o " error")
  /\ call' = [call EXCEPT !.value = s.value,
                          !.ret = IF s.ok /\ next = "quit" THEN 1 ELSE 0]
  /\ pc' = IF s.ok THEN next ELSE "quit"
  /\ UNCHANGED <<opts, backend, sdb, g_db, exit_code, muts>>

RenameGet ==
  /\ pc = "get"
  /\ \E fails \in BOOLEAN :
       RenameStepped("get", rename_get_step(kdb, call, fails), "del")

RenameDel ==
  /\ pc = "del"
  /\ \E fails \in BOOLEAN :
       RenameStepped("del", rename_del_step(kdb, call, fails), "put")

RenamePut ==
  /\ pc = "put"
  /\ \E fails \in BOOLEAN :
       RenameStepped("put", rename_put_step(kdb, call, fails), "quit")

\* rename_record frees the value and returns ret; _rename returns EINVAL
\* for 0.
RenameQuit ==
  /\ pc = "quit"
  /\ pc' = "returned"
  /\ call' = [call EXCEPT !.value = Null,
                          !.res = IF call.ret = 0 THEN -EINVAL ELSE 0]
  /\ UNCHANGED <<opts, backend, sdb, kdb, g_db, trace, exit_code, muts>>

\* The process is killed between two engine calls.
RenameStop ==
  /\ pc \in {"del", "put"}
  /\ pc' = "stopped"
  /\ UNCHANGED <<opts, backend, sdb, kdb, g_db, trace, exit_code, muts, call>>

NextRename ==
  \/ RenameEnter
  \/ RenameGet
  \/ RenameDel
  \/ RenamePut
  \/ RenameQuit
  \/ RenameStop

SpecRename == InitRename /\ [][NextRename]_vars

(***************************************************************************)
(* backend.c on its own: the lookup and the help and version texts, for    *)
(* every build of the registry (list.h compiles each backend's entries in  *)
(* or out).  A descriptor is what a factory returns: the strings its       *)
(* get_name, get_description, get_help and get_version return, Null for a  *)
(* NULL pointer.  Texts are sequences of characters.  The Berkeley DB      *)
(* descriptor is berkeleydb/mdbfs.c; the SQLite one follows the descriptor *)
(* contract of backend.h, with or without a help text.                     *)
(***************************************************************************)
BdbName ==
  <<"b","e","r","k","e","l","e","y","d","b">>

BdbDescription ==
  <<"b","a","c","k","e","n","d"," ","f","o","r"," ","r","e","a","d","i","n",
    "g"," ","B","e","r","k","e","l","e","y"," ","D","B"," ","f","i","l","e",
    "s">>

BdbVersion ==
  <<"0",".","1",".","0">>

SqliteName ==
  <<"s","q","l","i","t","e">>

NoHelp ==
  <<"T","h","e","r","e"," ","i","s"," ","n","o"," ","h","e","l","p"," ","f",
    "o","r"," ","t","h","i","s"," ","b","a","c","k","e","n","d",".">>

Unknown ==
  <<"u","n","k","n","o","w","n">>

Dash ==
  <<" ","-"," ">>

BlankLine ==
  <<"\n","\n">>

BackendWord ==
  <<"B","a","c","k","e","n","d"," ">>

VersionWord ==
  <<" ","v","e","r","s","i","o","n"," ">>

NewLine ==
  <<"\n">>

NoDescriptor == [name |-> Null, description |-> Null, help |-> Null, version |-> Null]

BdbDescriptor ==
  [name |-> BdbName, description |-> BdbDescription, help |-> Null,
   version |-> BdbVersion]

\* The file of the SQLite descriptor is not among the sources: the name it
\* reports is taken to be any one of these, the last of which is the name
\* of no registry entry.
SqliteNames == { SqliteName, Append(SqliteName, "3"), <<"S","Q","L","i","t","e">> }

SqliteDescriptors ==
  { [name |-> n, description |-> <<"S","Q","L">>, help |-> h, version |-> <<"3">>] :
      n \in SqliteNames, h \in {Null, <<"h">>} }

\* The descriptor the factory of backend b returns; sq is the SQLite one.
Factory(b, sq) == IF b = "sqlite" THEN sq ELSE BdbDescriptor

Builds == SUBSET {"sqlite", "berkeleydb"}

\* mdbfs_backends as compiled with the backends of build.
BackendsBuilt(build) == SelectSeq(mdbfs_backends, LAMBDA e : e.backend \in build)

\* A lookup that takes the first entry whose name starts the name asked for.
backend_get_prefix(reg, sq, name) ==
  LET i == Index(reg, LAMBDA x : Len(x.name) <= Len(name)
                                   /\ x.name = SubSeq(name, 1, Len(x.name)))
  IN IF i = 0 THEN [ret |-> NoDescriptor, calls |-> <<>>]
     ELSE [ret |-> Factory(reg[i].backend, sq), calls |-> <<reg[i].backend>>]

\* ret is the descriptor returned, NoDescriptor for NULL; calls are the
\* factories called, in order.
mdbfs_backend_get_from(reg, sq, name) ==
  LET i == Index(reg, LAMBDA x : x.name = name)
  IN IF i = 0 THEN [ret |-> NoDescriptor, calls |-> <<>>]
     ELSE [ret |-> Factory(reg[i].backend, sq), calls |-> <<reg[i].backend>>]

\* s ? s : "unknown"
OrUnknown(s) == IF s = Null THEN Unknown ELSE s

\* The loop body without the test for aliases.
HelpBlockOfAny(e, b) ==
  OrUnknown(b.name) \o Dash \o OrUnknown(b.description) \o BlankLine
    \o (IF b.help = Null THEN NoHelp ELSE b.help) \o BlankLine

\* What the loop body of mdbfs_backends_get_help appends for one entry.
HelpBlock(e, b) ==
  IF e.name # b.name THEN <<>>
  ELSE OrUnknown(b.name) \o Dash \o OrUnknown(b.description) \o BlankLine
         \o (IF b.help = Null THEN NoHelp ELSE b.help) \o BlankLine

\* What the loop body of mdbfs_backends_get_version appends for one entry.
VersionBlock(e, b) ==
  IF e.name # b.name THEN <<>>
  ELSE BackendWord \o OrUnknown(b.name) \o VersionWord \o OrUnknown(b.version)
         \o NewLine

RECURSIVE HelpLoop(_, _)
\* The second loop of mdbfs_backends_get_help: the text strcat builds.
HelpLoop(reg, sq) ==
  IF reg = <<>> THEN <<>>
  ELSE HelpBlock(Head(reg), Factory(Head(reg).backend, sq)) \o HelpLoop(Tail(reg), sq)

RECURSIVE VersionLoop(_, _)
VersionLoop(reg, sq) ==
  IF reg = <<>> THEN <<>>
  ELSE VersionBlock(Head(reg), Factory(Head(reg).backend, sq))
         \o VersionLoop(Tail(reg), sq)

RECURSIVE HelpLength(_, _)
\* The first loop: ret_length, the sum of the lengths of what the second
\* loop appends.
HelpLength(reg, sq) ==
  IF reg = <<>> THEN 0
  ELSE Len(HelpBlock(Head(reg), Factory(Head(reg).backend, sq)))
         + HelpLength(Tail(reg), sq)

RECURSIVE VersionLength(_, _)
VersionLength(reg, sq) ==
  IF reg = <<>> THEN 0
  ELSE Len(VersionBlock(Head(reg), Factory(Head(reg).backend, sq)))
         + VersionLength(Tail(reg), sq)

\* text is the string returned, ret_length + 1 the size of its buffer;
\* calls are the factories called: each loop calls every entry's.
mdbfs_backends_get_help(reg, sq) ==
  [text |-> HelpLoop(reg, sq), ret_length |-> HelpLength(reg, sq),
   calls |-> [i \in 1..(2 * Len(reg)) |-> reg[((i - 1) % Len(reg)) + 1].backend]]

mdbfs_backends_get_version(reg, sq) ==
  [text |-> VersionLoop(reg, sq), ret_length |-> VersionLength(reg, sq),
   calls |-> [i \in 1..(2 * Len(reg)) |-> reg[((i - 1) % Len(reg)) + 1].backend]]

\* The names asked for: every beginning of a registry name, every registry
\* name with one more character, and one in capitals.
NameInputs ==
  LET names == {mdbfs_backends[i].name : i \in 1..Len(mdbfs_backends)}
  IN UNION {{SubSeq(n, 1, k) : k \in 0..Len(n)} : n \in names}
       \cup {n \o <<"3">> : n \in names}
       \cup { <<"S","Q","L","I","T","E">> }

RegIdle ==
  [op |-> "input", name |-> <<>>, build |-> {}, sqlite |-> NoDescriptor,
   ret |-> NoDescriptor, calls |-> <<>>, text |-> <<>>, ret_length |-> 0]

InitRegistry ==
  /\ pc = "registry"
  /\ opts = [parse |-> 0, type |-> Null, path |-> Null, show_help |-> FALSE,
             show_version |-> FALSE, init_ok |-> TRUE]
  /\ backend = "none"
  /\ sdb = InitSdb
  /\ kdb = InitKdb
  /\ g_db = "NULL"
  /\ trace = <<>>
  /\ exit_code = 0
  /\ muts = 0
  /\ call \in {[RegIdle EXCEPT !.name = n, !.build = b, !.sqlite = sq] :
                 n \in NameInputs, b \in Builds, sq \in SqliteDescriptors}

BackendGet ==
  /\ pc = "registry"
  /\ call.op = "input"
  /\ LET got == mdbfs_backend_get_from(BackendsBuilt(call.build), call.sqlite, call.name)
     IN call' = [call EXCEPT !.op = "get", !.ret = got.ret, !.calls = got.calls]
  /\ UNCHANGED <<pc, opts, backend, sdb, kdb, g_db, trace, exit_code, muts>>

BackendsGetHelp ==
  /\ pc = "registry"
  /\ call.op = "input"
  /\ LET got == mdbfs_backends_get_help(BackendsBuilt(call.build), call.sqlite)
     IN call' = [call EXCEPT !.op = "get_help", !.text = got.text,
                             !.ret_length = got.ret_length, !.calls = got.calls]
  /\ UNCHANGED <<pc, opts, backend, sdb, kdb, g_db, trace, exit_code, muts>>

BackendsGetVersion ==
  /\ pc = "registry"
  /\ call.op = "input"
  /\ LET got == mdbfs_backends_get_version(BackendsBuilt(call.build), call.sqlite)
     IN call' = [call EXCEPT !.op = "get_version", !.text = got.text,
                             !.ret_length = got.ret_length, !.calls = got.calls]
  /\ UNCHANGED <<pc, opts, backend, sdb, kdb, g_db, trace, exit_code, muts>>

NextRegistry ==
  \/ BackendGet
  \/ BackendsGetHelp
  \/ BackendsGetVersion

SpecRegistry == InitRegistry /\ [][NextRegistry]_vars

(***************************************************************************)
(* sqlite/dbmgr.c, one engine call at a time: what each manager operation  *)
(* does with its prepared statement.  call.stmt is the statement handle;   *)
(* trace holds the engine calls made on it, in order; call.r is the result *)
(* of the last engine call, call.stepped that of the last sqlite3_step,    *)
(* and call.ret the value the operation returns.                           *)
(***************************************************************************)
MaxRows == 2

ListLoops == {"get_table_names", "get_row_names"}

CellQueries == {"get_cell", "get_cell_length"}

StmtMutations ==
  {"set_cell", "rename_table", "rename_column", "rename_row", "create_column",
   "remove_table", "remove_row"}

StmtOps == ListLoops \cup {"get_column_names"} \cup CellQueries \cup StmtMutations

\* The value an operation returns when it has nothing to give.
Nothing(op) == IF op \in StmtMutations \cup {"get_cell_length"} THEN "0" ELSE "NULL"

StmtIdle ==
  [op |-> "get_table_names", args_ok |-> TRUE, sql_ok |-> TRUE, stmt |-> "NULL",
   r |-> "OK", stepped |-> "none", rows |-> 0, cell |-> "none", ret |-> "NULL"]

InitStmt ==
  /\ pc = "stmt_enter"
  /\ opts = [parse |-> 0, type |-> Null, path |-> Null, show_help |-> FALSE,
             show_version |-> FALSE, init_ok |-> TRUE]
  /\ backend = "sqlite"
  /\ sdb = InitSdb
  /\ kdb = InitKdb
  /\ g_db = "open"
  /\ trace = <<>>
  /\ exit_code = 0
  /\ muts = 0
  /\ call \in {[StmtIdle EXCEPT !.op = op, !.args_ok = a, !.sql_ok = s,
                                !.ret = Nothing(op)] :
                 op \in StmtOps, a \in BOOLEAN, s \in BOOLEAN}
  /\ call.op = "get_table_names" => call.args_ok /\ call.sql_ok

\* The test of the arguments and sql_from_fmt.  get_table_names takes no
\* argument and prepares a constant string.
StmtEnter ==
  /\ pc = "stmt_enter"
  /\ pc' = IF call.op = "get_table_names" THEN "stmt_prepare"
           ELSE IF ~call.args_ok THEN "stmt_returned"
           ELSE IF ~call.sql_ok THEN "stmt_quit"
           ELSE "stmt_prepare"
  /\ UNCHANGED <<opts, backend, sdb, kdb, g_db, trace, exit_code, muts, call>>

\* sqlite3_prepare_v2: on failure the handle stays NULL.
StmtPrepare ==
  /\ pc = "stmt_prepare"
  /\ \E ok \in BOOLEAN :
       /\ call' = [call EXCEPT !.stmt = IF ok THEN "prepared" ELSE "NULL",
                               !.r = IF ok THEN "OK" ELSE "ERROR"]
       /\ pc' = IF ok THEN "stmt_step" ELSE "stmt_quit"
  /\ trace' = Append(trace, "prepare")
  /\ UNCHANGED <<opts, backend, sdb, kdb, g_db, exit_code, muts>>

\* Where the operation goes after sqlite3_step returned r, and with what
\* value.
step_then(c, r) ==
  IF c.op \in ListLoops THEN
    IF r = "ROW" THEN [pc |-> "stmt_step", ret |-> c.ret, rows |-> c.rows + 1,
                       calls |-> <<"step">>]
    ELSE IF r = "DONE" THEN [pc |-> "stmt_quit", ret |-> "list", rows |-> c.rows,
                             calls |-> <<"step">>]
    ELSE IF c.op = "get_table_names"
      THEN [pc |-> "stmt_returned", ret |-> "NULL", rows |-> c.rows,
            calls |-> <<"step", "reset">>]
    ELSE [pc |-> "stmt_quit", ret |-> "NULL", rows |-> c.rows, calls |-> <<"step">>]
  ELSE IF c.op = "get_column_names" THEN
    [pc |-> "stmt_quit", ret |-> IF r = "ROW" THEN "list" ELSE "NULL",
     rows |-> c.rows, calls |-> <<"step">>]
  ELSE IF c.op \in CellQueries THEN
    [pc |-> IF r = "ROW" THEN "stmt_column" ELSE "stmt_quit", ret |-> c.ret,
     rows |-> c.rows, calls |-> <<"step">>]
  ELSE [pc |-> "stmt_quit", ret |-> c.ret, rows |-> c.rows, calls |-> <<"step">>]

\* sqlite3_step; a list loop steps until the engine stops giving rows.
StmtStep ==
  /\ pc = "stmt_step"
  /\ \E r \in {"ROW", "DONE", "ERROR"} :
       /\ r = "ROW" => call.rows < MaxRows
       /\ call' = [call EXCEPT !.r = r, !.stepped = r,
                               !.ret = step_then(call, r).ret,
                               !.rows = step_then(call, r).rows]
       /\ pc' = step_then(call, r).pc
       /\ trace' = trace \o step_then(call, r).calls
  /\ UNCHANGED <<opts, backend, sdb, kdb, g_db, exit_code, muts>>

\* sqlite3_column_text of the row of a cell query: NULL, the column's own
\* name, or a text.
StmtColumn ==
  /\ pc = "stmt_column"
  /\ \E cell \in {"null", "name", "text"} :
       call' = [call EXCEPT !.cell = cell,
                            !.ret = IF cell # "text" THEN call.ret
                                    ELSE IF call.op = "get_cell" THEN "cell"
                                    ELSE "length"]
  /\ pc' = "stmt_quit"
  /\ UNCHANGED <<opts, backend, sdb, kdb, g_db, trace, exit_code, muts>>

\* What the operation returns from its quit label after sqlite3_finalize
\* returned r.
quit_value(c, r) == IF c.op \in StmtMutations THEN "1" ELSE c.ret

\* The quit label: sqlite3_finalize, which is a no-op on a NULL handle and
\* destroys a prepared statement whatever it returns.
StmtQuit ==
  /\ pc = "stmt_quit"
  /\ \E r \in {"OK", "ERROR"} :
       /\ call.stmt = "NULL" => r = "OK"
       /\ call' = [call EXCEPT !.r = r,
                               !.stmt = IF call.stmt = "NULL" THEN "NULL"
                                        ELSE "finalized",
                               !.ret = quit_value(call, r)]
  /\ trace' = Append(trace, "finalize")
  /\ pc' = "stmt_returned"
  /\ UNCHANGED <<opts, backend, sdb, kdb, g_db, exit_code, muts>>

NextStmt ==
  \/ StmtEnter
  \/ StmtPrepare
  \/ StmtStep
  \/ StmtColumn
  \/ StmtQuit

SpecStmt == InitStmt /\ [][NextStmt]_vars

(***************************************************************************)
(* utils/print.c: mdbfs_println.  The environment is the value of          *)
(* MDBFS_DEBUG: Null when the variable is not set, a string otherwise.     *)
(* The result is what was written to the standard error stream and whether *)
(* the process was aborted.                                                *)
(***************************************************************************)
MDBFS_PRINT_LEVEL_DEBUG == 1
MDBFS_PRINT_LEVEL_INFO == 2
MDBFS_PRINT_LEVEL_WARNING == 6
MDBFS_PRINT_LEVEL_ERROR == 14
MDBFS_PRINT_LEVEL_STOP == 16

MDBFS_PRINT_LEVEL_MESSAGE_LEVEL(m) == m % 16

MDBFS_PRINT_LEVEL_STOP_BIT(s) == (s \div 16) % 2

\* The header the switch prints for the message level; none for a level
\* that is not one of the four.
PrintHeader(msg_level) ==
  IF msg_level = MDBFS_PRINT_LEVEL_DEBUG THEN "** mdbfs: DEBUG: "
  ELSE IF msg_level = MDBFS_PRINT_LEVEL_INFO THEN "** mdbfs: INFO: "
  ELSE IF msg_level = MDBFS_PRINT_LEVEL_WARNING THEN "** mdbfs: WARN: "
  ELSE IF msg_level = MDBFS_PRINT_LEVEL_ERROR THEN "** mdbfs: FAIL: "
  ELSE ""

mdbfs_println(level, env_debug, message) ==
  IF MDBFS_PRINT_LEVEL_MESSAGE_LEVEL(level) = MDBFS_PRINT_LEVEL_DEBUG
       /\ env_debug = Null
    THEN [out |-> "", aborted |-> FALSE]
    ELSE [out |-> PrintHeader(MDBFS_PRINT_LEVEL_MESSAGE_LEVEL(level))
                    \o message \o "\n",
          aborted |-> MDBFS_PRINT_LEVEL_STOP_BIT(level) # 0]

PrintLevels ==
  {l + s : l \in {0, MDBFS_PRINT_LEVEL_DEBUG, MDBFS_PRINT_LEVEL_INFO,
                  MDBFS_PRINT_LEVEL_WARNING, MDBFS_PRINT_LEVEL_ERROR},
           s \in {0, MDBFS_PRINT_LEVEL_STOP}}

DebugEnvs == {Null, <<>>, <<"1">>, <<"0">>}

PrintMessages == {"", "m", "listing table names"}

PrintIdle ==
  [op |-> "input", level |-> 0, env |-> Null, message |-> "", out |-> "",
   aborted |-> FALSE]

InitPrint ==
  /\ pc = "print"
  /\ opts = [parse |-> 0, type |-> Null, path |-> Null, show_help |-> FALSE,
             show_version |-> FALSE, init_ok |-> TRUE]
  /\ backend = "none"
  /\ sdb = InitSdb
  /\ kdb = InitKdb
  /\ g_db = "NULL"
  /\ trace = <<>>
  /\ exit_code = 0
  /\ muts = 0
  /\ call \in {[PrintIdle EXCEPT !.level = l, !.env = e, !.message = m] :
                 l \in PrintLevels, e \in DebugEnvs, m \in PrintMessages}

Println ==
  /\ pc = "print"
  /\ call.op = "input"
  /\ call' = [call EXCEPT
                !.op = "println",
                !.out = mdbfs_println(call.level, call.env, call.message).out,
                !.aborted = mdbfs_println(call.level, call.env, call.message).aborted]
  /\ pc' = IF mdbfs_println(call.level, call.env, call.message).aborted
             THEN "aborted" ELSE pc
  /\ UNCHANGED <<opts, backend, sdb, kdb, g_db, trace, exit_code, muts>>

NextPrint == Println

SpecPrint == InitPrint /\ [][NextPrint]_vars

(***************************************************************************)
(* The heap use of the callbacks.  A buffer is named by the variable that  *)
(* holds it, the call that allocated it (0 for the callback itself, i for  *)
(* the i-th _getattr a _readdir makes) and, for the element of a list, its *)
(* place in the list.  A ledger holds the buffers a call allocated, in     *)
(* order, and the buffers it handed to free(), in order; mdbfs_free of a   *)
(* null pointer does nothing and is not recorded.                          *)
(***************************************************************************)
Buf(name, in, at) == [buf |-> name, in |-> in, at |-> at]

Ledger(allocated, freed) == [alloc |-> allocated, free |-> freed]

NoLedger == Ledger(<<>>, <<>>)

Both(l1, l2) == Ledger(l1.alloc \o l2.alloc, l1.free \o l2.free)

RECURSIVE Flat(_)
Flat(ledgers) ==
  IF ledgers = <<>> THEN NoLedger ELSE Both(Head(ledgers), Flat(Tail(ledgers)))

\* mdbfs_free(ptr) where ptr holds the buffer b when held.
Free(held, b) == Ledger(<<>>, IF held THEN <<b>> ELSE <<>>)

\* A list a manager returned: the array and one string per name, and the
\* loop that frees the strings and then the array.
ListBufs(name, in, list) ==
  IF ~list.ok THEN <<>>
  ELSE <<Buf(name, in, 0)>> \o [i \in 1..Len(list.names) |-> Buf(name, in, i)]

FreeList(name, in, list) ==
  IF ~list.ok THEN <<>>
  ELSE [i \in 1..Len(list.names) |-> Buf(name, in, i)] \o <<Buf(name, in, 0)>>

\* berkeleydb/fuseops.c: key_from_path, where np is its normalized_path
\* and key the buffer it returns, which is the caller's.
key_from_path_ledger(path, np, key) ==
  LET normalized(n) ==
        IF ~mdbfs_path_is_absolute(n) THEN Ledger(<<np>>, <<np>>)
        ELSE IF n = Root THEN Ledger(<<np, key>>, <<>>)
        ELSE IF AfterComponent(Tail(n)) # <<>> THEN Ledger(<<np, key>>, <<key, np>>)
        ELSE Ledger(<<np, key>>, <<np>>)
  IN normalized(mdbfs_path_lexically_normal(path))

\* The decoding of the path of a callback (in = 0) or of a _getattr made
\* by _readdir, and the mdbfs_free(key) of its quit label.
BdbKey(path, in) ==
  key_from_path_ledger(path, Buf("normalized_path", in, 0), Buf("key", in, 0))

BdbQuit(path, in) == Free(key_from_path(path) # Null, Buf("key", in, 0))

\* _mknod, _unlink and _write past its offset test: the key, freed at quit.
bdb_key_ledger(path) == Both(BdbKey(path, 0), BdbQuit(path, 0))

bdb_write_ledger(path, offset) ==
  IF offset > 0 THEN NoLedger ELSE bdb_key_ledger(path)

\* _rename: the second path is decoded only when the first gave a key.
bdb_rename_ledger(path1, path2) ==
  LET old == key_from_path_ledger(path1, Buf("normalized_path", 0, 1),
                                  Buf("key_old", 0, 0))
      new == key_from_path_ledger(path2, Buf("normalized_path", 0, 2),
                                  Buf("key_new", 0, 0))
  IN IF key_from_path(path1) = Null THEN old
     ELSE Flat(<<old, new,
                 Free(TRUE, Buf("key_old", 0, 0)),
                 Free(key_from_path(path2) # Null, Buf("key_new", 0, 0))>>)

\* The value _read and _getattr fetch, freed at quit.
bdb_content_ledger(db, fault, key, in) ==
  LET fetched(content) ==
        Ledger(IF content.ok THEN <<Buf("content", in, 0)>> ELSE <<>>,
               IF content.ok THEN <<Buf("content", in, 0)>> ELSE <<>>)
  IN fetched(mdbfs_backend_berkeleydb_get_record_value(db, fault, key))

bdb_read_ledger(db, e, path) ==
  LET decoded(key) ==
        IF key = Null THEN BdbKey(path, 0)
        ELSE Flat(<<BdbKey(path, 0),
                    bdb_content_ledger(db, e.fail = 1, key, 0),
                    BdbQuit(path, 0)>>)
  IN decoded(key_from_path(path))

bdb_getattr_ledger(db, fault, path, in) ==
  LET decoded(key) ==
        IF key = Null \/ key = <<>> THEN Both(BdbKey(path, in), BdbQuit(path, in))
        ELSE Flat(<<BdbKey(path, in),
                    bdb_content_ledger(db, fault, key, in),
                    BdbQuit(path, in)>>)
  IN decoded(key_from_path(path))

bdb_readdir_ledger(db, e, path, offset) ==
  LET decoded(key) ==
        LET listed(record_keys) ==
              IF offset > 0 THEN NoLedger
              ELSE IF key # <<>> \/ ~record_keys.ok
                THEN Both(BdbKey(path, 0), BdbQuit(path, 0))
              ELSE Flat(<<BdbKey(path, 0),
                          Ledger(ListBufs("record_keys", 0, record_keys), <<>>)>>
                        \o [i \in 1..Len(Shown(record_keys.names)) |->
                              Flat(<<Ledger(<<Buf("path_record", 0, i)>>, <<>>),
                                     bdb_getattr_ledger(db, e.fail = i + 1,
                                        <<Slash>> \o Shown(record_keys.names)[i], i),
                                     Free(TRUE, Buf("path_record", 0, i))>>)]
                        \o <<Ledger(<<>>, FreeList("record_keys", 0, record_keys)),
                             BdbQuit(path, 0)>>)
        IN listed(mdbfs_backend_berkeleydb_get_record_keys(db, e.fail = 1, e.ub))
  IN decoded(key_from_path(path))

\* sqlite-fuse.c: the buffers a decoded path owns, the structure first.
SqlitePathBufs(sp, in, at) ==
  <<Buf("sqlite_path", in, at)>>
    \o (IF sp.table # Null THEN <<Buf("table", in, at)>> ELSE <<>>)
    \o (IF sp.row # Null THEN <<Buf("row", in, at)>> ELSE <<>>)
    \o (IF sp.column # Null THEN <<Buf("column", in, at)>> ELSE <<>>)

\* mdbfs_sqlite_path_from_string, for the at-th path of the call in.  A
\* path of more than three components has had all three copied when it is
\* rejected.
path_from_string_ledger(path, in, at) ==
  LET normalized(n, sp) ==
        IF ~mdbfs_path_is_absolute(n)
          THEN Ledger(<<Buf("normalized_path", in, at)>>,
                      <<Buf("normalized_path", in, at)>>)
        ELSE IF ~sp.ok
          THEN Ledger(<<Buf("normalized_path", in, at), Buf("sqlite_path", in, at),
                        Buf("table", in, at), Buf("row", in, at),
                        Buf("column", in, at)>>,
                      <<Buf("table", in, at), Buf("row", in, at),
                        Buf("column", in, at), Buf("sqlite_path", in, at),
                        Buf("normalized_path", in, at)>>)
        ELSE Ledger(<<Buf("normalized_path", in, at)>> \o SqlitePathBufs(sp, in, at),
                    <<Buf("normalized_path", in, at)>>)
  IN normalized(mdbfs_path_lexically_normal(path),
                mdbfs_sqlite_path_from_string(path))

\* The quit label: mdbfs_sqlite_path_free and mdbfs_free of the structure.
\* Where the path was rejected and the read of the null structure goes
\* unnoticed, nothing is freed.
SqliteQuit(path, in, at) ==
  LET decoded(sp) ==
        Ledger(<<>>, IF sp.ok THEN Tail(SqlitePathBufs(sp, in, at))
                                     \o <<Buf("sqlite_path", in, at)>>
                     ELSE <<>>)
  IN decoded(mdbfs_sqlite_path_from_string(path))

\* _mknod, _rmdir and _write past its offset test: the decoded path.
sqlite_path_ledger(path) ==
  Both(path_from_string_ledger(path, 0, 0), SqliteQuit(path, 0, 0))

sqlite_write_ledger(path, offset) ==
  IF offset > 0 THEN NoLedger ELSE sqlite_path_ledger(path)

\* _rename: the second path is decoded only when the first was accepted.
sqlite_rename_ledger(path1, path2) ==
  IF ~mdbfs_sqlite_path_from_string(path1).ok
    THEN path_from_string_ledger(path1, 0, 1)
  ELSE Flat(<<path_from_string_ledger(path1, 0, 1),
              path_from_string_ledger(path2, 0, 2),
              SqliteQuit(path1, 0, 1), SqliteQuit(path2, 0, 2)>>)

\* The cell _read and _getattr fetch.
sqlite_cell_ledger(db, fault, sp, in) ==
  LET fetched(cell) ==
        Ledger(IF cell.ok THEN <<Buf("cell", in, 0)>> ELSE <<>>,
               IF cell.ok THEN <<Buf("cell", in, 0)>> ELSE <<>>)
  IN fetched(mdbfs_backend_sqlite_get_cell(db, fault, sp.table, sp.row, sp.column))

sqlite_read_ledger(db, e, path) ==
  LET decoded(sp) ==
        IF ~sp.ok \/ sp.type # "COLUMN" THEN sqlite_path_ledger(path)
        ELSE Flat(<<path_from_string_ledger(path, 0, 0),
                    sqlite_cell_ledger(db, e.fail = 1, sp, 0),
                    SqliteQuit(path, 0, 0)>>)
  IN decoded(mdbfs_sqlite_path_from_string(path))

sqlite_getattr_ledger(db, fault, ub, path, in) ==
  LET decoded(sp) ==
        LET listed(list) ==
              IF ~sp.ok
                THEN Both(path_from_string_ledger(path, in, 0), SqliteQuit(path, in, 0))
              ELSE IF sp.type = "COLUMN"
                THEN Flat(<<path_from_string_ledger(path, in, 0),
                            sqlite_cell_ledger(db, fault, sp, in),
                            SqliteQuit(path, in, 0)>>)
              ELSE Flat(<<path_from_string_ledger(path, in, 0),
                          Ledger(ListBufs("names", in, list),
                                 FreeList("names", in, list)),
                          SqliteQuit(path, in, 0)>>)
        IN listed(SqliteList(db, fault, ub, sp))
  IN decoded(mdbfs_sqlite_path_from_string(path))

\* The getattr at which the loop of _readdir over names leaves by goto
\* quit: the first that fails where the directory is a table or a row, 0
\* where the loop runs to its end.
LoopLeft(db, e, path, sp, names) ==
  LET bad == {i \in 1..Len(names) :
                sqlite_getattr_at(db, e.fail = i + 1, e.ub, path).ret < 0}
  IN IF sp.type = "DATABASE" \/ bad = {} THEN 0
     ELSE CHOOSE i \in bad : \A j \in bad : i <= j

\* _readdir: the list is freed after the loop, and not where the loop was
\* left by goto quit.
sqlite_readdir_ledger(db, e, path, offset) ==
  LET decoded(sp) ==
        LET listed(list) ==
              LET looped(left) ==
                    Flat(<<path_from_string_ledger(path, 0, 0),
                           Ledger(ListBufs("names", 0, list), <<>>)>>
                         \o [i \in 1..(IF left = 0 THEN Len(list.names) ELSE left) |->
                               sqlite_getattr_ledger(db, e.fail = i + 1, e.ub, path, i)]
                         \o <<Ledger(<<>>, IF left = 0 THEN FreeList("names", 0, list)
                                           ELSE <<>>),
                              SqliteQuit(path, 0, 0)>>)
              IN IF offset > 0 THEN NoLedger
                 ELSE IF ~sp.ok \/ sp.type = "COLUMN" \/ ~list.ok
                   THEN sqlite_path_ledger(path)
                 ELSE looped(LoopLeft(db, e, path, sp, list.names))
        IN listed(SqliteList(db, e.fail = 1, e.ub, sp))
  IN decoded(mdbfs_sqlite_path_from_string(path))

(***************************************************************************)
(* One callback of a mounted backend and its ledger, over the databases    *)
(* the model starts from.                                                  *)
(***************************************************************************)
SqliteOps ==
  {"mknod", "rename", "unlink", "mkdir", "rmdir", "read", "write", "getattr",
   "readdir"}

BdbOps == {"mknod", "rename", "unlink", "read", "write", "getattr", "readdir"}

AllocIdle ==
  [op |-> "input", name |-> "none", path |-> <<>>, path2 |-> <<>>, offset |-> 0,
   env |-> Calm, outcome |-> "none", ledger |-> NoLedger]

sqlite_outcome(c) ==
  CASE c.name = "mknod" -> sqlite_mknod(InitSdb, c.env, c.path).outcome
    [] c.name = "rename" -> sqlite_rename(InitSdb, c.env, c.path, c.path2).outcome
    [] c.name = "unlink" -> sqlite_unlink(InitSdb, c.env, c.path).outcome
    [] c.name = "mkdir" -> sqlite_mkdir(InitSdb, c.env, c.path).outcome
    [] c.name = "rmdir" -> sqlite_rmdir(InitSdb, c.env, c.path).outcome
    [] c.name = "read" -> sqlite_read(InitSdb, c.env, c.path, MaxBuf, c.offset).outcome
    [] c.name = "write" ->
         sqlite_write(InitSdb, c.env, c.path, <<"d">>, <<>>, c.offset).outcome
    [] c.name = "getattr" -> sqlite_getattr(InitSdb, c.env, c.path).outcome
    [] c.name = "readdir" -> sqlite_readdir(InitSdb, c.env, c.path, c.offset).outcome

sqlite_ledger(c) ==
  CASE c.name \in {"mknod", "rmdir"} -> sqlite_path_ledger(c.path)
    [] c.name = "rename" -> sqlite_rename_ledger(c.path, c.path2)
    [] c.name \in {"unlink", "mkdir"} -> NoLedger
    [] c.name = "read" -> sqlite_read_ledger(InitSdb, c.env, c.path)
    [] c.name = "write" -> sqlite_write_ledger(c.path, c.offset)
    [] c.name = "getattr" ->
         sqlite_getattr_ledger(InitSdb, c.env.fail = 1, c.env.ub, c.path, 0)
    [] c.name = "readdir" -> sqlite_readdir_ledger(InitSdb, c.env, c.path, c.offset)

bdb_outcome(c) ==
  CASE c.name = "mknod" -> bdb_mknod(InitKdb, c.env, c.path).outcome
    [] c.name = "rename" -> bdb_rename(InitKdb, c.env, c.path, c.path2).outcome
    [] c.name = "unlink" -> bdb_unlink(InitKdb, c.env, c.path).outcome
    [] c.name = "read" -> bdb_read(InitKdb, c.env, c.path, MaxBuf, c.offset).outcome
    [] c.name = "write" -> bdb_write(InitKdb, c.env, c.path, <<"d">>, c.offset).outcome
    [] c.name = "getattr" -> bdb_getattr(InitKdb, c.env, c.path).outcome
    [] c.name = "readdir" -> bdb_readdir(InitKdb, c.env, c.path, c.offset).outcome

bdb_ledger(c) ==
  CASE c.name \in {"mknod", "unlink"} -> bdb_key_ledger(c.path)
    [] c.name = "rename" -> bdb_rename_ledger(c.path, c.path2)
    [] c.name = "read" -> bdb_read_ledger(InitKdb, c.env, c.path)
    [] c.name = "write" -> bdb_write_ledger(c.path, c.offset)
    [] c.name = "getattr" -> bdb_getattr_ledger(InitKdb, c.env.fail = 1, c.path, 0)
    [] c.name = "readdir" -> bdb_readdir_ledger(InitKdb, c.env, c.path, c.offset)

AllocInputs(ops, paths) ==
  {[AllocIdle EXCEPT !.name = n, !.path = p, !.path2 = q, !.offset = o, !.env = e] :
     n \in ops, p \in paths, q \in paths, o \in {0, 1}, e \in Envs}

InitAlloc ==
  /\ pc = "alloc"
  /\ opts = [parse |-> 0, type |-> Null, path |-> Null, show_help |-> FALSE,
             show_version |-> FALSE, init_ok |-> TRUE]
  /\ backend \in {"sqlite", "berkeleydb"}
  /\ sdb = InitSdb
  /\ kdb = InitKdb
  /\ g_db = "open"
  /\ trace = <<>>
  /\ exit_code = 0
  /\ muts = 0
  /\ call \in IF backend = "sqlite" THEN AllocInputs(SqliteOps, SqlitePaths)
              ELSE AllocInputs(BdbOps, BdbPaths)
  /\ call.name # "rename" => call.path2 = call.path
  /\ call.name \notin {"read", "write", "readdir"} => call.offset = 0

SqliteCallback ==
  /\ pc = "alloc"
  /\ backend = "sqlite"
  /\ call.op = "input"
  /\ call' = [call EXCEPT !.op = "callback",
                          !.outcome = sqlite_outcome(call),
                          !.ledger = sqlite_ledger(call)]
  /\ pc' = sqlite_outcome(call)
  /\ UNCHANGED <<opts, backend, sdb, kdb, g_db, trace, exit_code, muts>>

BdbCallback ==
  /\ pc = "alloc"
  /\ backend = "berkeleydb"
  /\ call.op = "input"
  /\ call' = [call EXCEPT !.op = "callback",
                          !.outcome = bdb_outcome(call),
                          !.ledger = bdb_ledger(call)]
  /\ pc' = bdb_outcome(call)
  /\ UNCHANGED <<opts, backend, sdb, kdb, g_db, trace, exit_code, muts>>

NextAlloc ==
  \/ SqliteCallback
  \/ BdbCallback

SpecAlloc == InitAlloc /\ [][NextAlloc]_vars

(***************************************************************************)
(* What the specification says of the callbacks, stated over the call      *)
(* observed.  A "subsequent" call is the callback applied to the database  *)
(* the observed call left, with the engine serving it.                     *)
(***************************************************************************)
\* The call observed is op of backend b.
Observed(b, op) == backend = b /\ call.op = op

\* The cell a tabular path names, as the manager fetches it.
SqliteContent(db, path) ==
  LET at(sp) == mdbfs_backend_sqlite_get_cell(db, FALSE, sp.table, sp.row, sp.column)
  IN at(mdbfs_sqlite_path_from_string(path))

\* The record a key-value path other than the root names.
BdbContent(db, path) ==
  LET at(key) == IF key = Null \/ key = <<>> THEN NullCell
                 ELSE mdbfs_backend_berkeleydb_get_record_value(db, FALSE, key)
  IN at(key_from_path(path))

ReadCount(size, n, offset) == IF offset >= size THEN 0 ELSE Min(n, size - offset)

\* The call c, a read, returned the window of content its arguments name.
ReadsWindow(c, content) ==
  /\ c.res.outcome = "returned"
  /\ c.res.ret = ReadCount(Len(content), c.bufsize, c.offset)
  /\ c.res.data = SubSeq(content, c.offset + 1, c.offset + c.res.ret)

\* C1: in both backends read(path, buf, n, offset) on an existing file of
\* length size returns 0 when offset >= size and min(n, size - offset)
\* otherwise, and copies exactly the bytes content[offset .. offset+count),
\* none from past the end of the content.  (Stated for reads the engine
\* serves.)
C1_ReadWindow ==
  /\ (Observed("sqlite", "read") /\ call.env.fail = 0
        /\ SqliteContent(call.pre, call.path).ok)
       => ReadsWindow(call, SqliteContent(call.pre, call.path).data)
  /\ (Observed("berkeleydb", "read") /\ call.env.fail = 0
        /\ BdbContent(call.pre, call.path).ok)
       => ReadsWindow(call, BdbContent(call.pre, call.path).data)

\* The cell path names exists in db: its table, its column and its row do.
CellExists(db, path) ==
  LET at(sp) ==
        /\ sp.ok /\ sp.type = "COLUMN"
        /\ TableIndex(db, sp.table) # 0
        /\ LET tbl == db[TableIndex(db, sp.table)]
           IN /\ ColumnIndex(tbl, sp.column) # 0
              /\ \E i \in 1..Len(tbl.rows) : tbl.rows[i].id = sp.row
  IN at(mdbfs_sqlite_path_from_string(path))

\* After the call c, a write, read gives back the bytes written and getattr
\* their number.
SqliteReadsBack(c) ==
  LET after(rd, attr) ==
        /\ rd.outcome = "returned" /\ rd.ret = Len(c.bytes) /\ rd.data = c.bytes
        /\ attr.outcome = "returned" /\ attr.ret = 0 /\ attr.size = Len(c.bytes)
  IN after(sqlite_read(c.res.db, Calm, c.path, Len(c.bytes), 0),
           sqlite_getattr(c.res.db, Calm, c.path))

\* C2: tabular backend: for every existing cell /T/R/C and every byte
\* string (the empty one and one equal to a column name included), after
\* write(path, bytes, |bytes|, 0) returns |bytes|, read(path) at offset 0
\* returns exactly bytes and getattr(path) returns 0 with size |bytes|.
\* (Stated for writes the engine serves, from a buffer with a NUL right
\* after the bytes.)
C2_WriteThenRead ==
  (Observed("sqlite", "write") /\ call.env.fail = 0 /\ call.offset = 0
     /\ call.stray = <<>> /\ CellExists(call.pre, call.path)
     /\ call.res.outcome = "returned" /\ call.res.ret = Len(call.bytes))
    => SqliteReadsBack(call)

\* path is "/" followed by one non-empty component without a separator.
SingleComponent(path) ==
  /\ Len(path) >= 2
  /\ path[1] = Slash
  /\ \A i \in 2..Len(path) : path[i] # Slash

\* The records of after other than K are those of before, unchanged.
OthersUnchanged(before, after, K) ==
  /\ (DOMAIN after) \ {K} = (DOMAIN before) \ {K}
  /\ \A k \in (DOMAIN before) \ {K} : after[k] = before[k]

\* The call c, a write to /K, returned the number of bytes, after which
\* read gives back the bytes, getattr a regular file of their number, and
\* no other record changed.
BdbUpserts(c, K) ==
  LET after(rd, attr) ==
        /\ rd.outcome = "returned" /\ rd.ret = Len(c.bytes) /\ rd.data = c.bytes
        /\ attr.outcome = "returned" /\ attr.ret = 0
        /\ attr.mode = ModeReg /\ attr.size = Len(c.bytes)
  IN /\ c.res.outcome = "returned"
     /\ c.res.ret = Len(c.bytes)
     /\ after(bdb_read(c.res.db, Calm, c.path, Len(c.bytes), 0),
              bdb_getattr(c.res.db, Calm, c.path))
     /\ OthersUnchanged(c.pre, c.res.db, K)

TagsDiffer(c) ==
  LET of(old, new) == old.ok /\ new.ok /\ old.type # new.type
  IN of(mdbfs_sqlite_path_from_string(c.path), mdbfs_sqlite_path_from_string(c.path2))

TagsAgree(c) ==
  LET of(old, new) == old.ok /\ new.ok /\ old.type = new.type
  IN of(mdbfs_sqlite_path_from_string(c.path), mdbfs_sqlite_path_from_string(c.path2))

\* C4: tabular rename(a, b) returns 0 only when decode(a) and decode(b)
\* both succeed with the same tag; whenever the two tags differ it returns
\* ENOSPC and the database is left unchanged.
C4_RenameTags ==
  Observed("sqlite", "rename") =>
    /\ (call.res.outcome = "returned" /\ call.res.ret = 0) => TagsAgree(call)
    /\ TagsDiffer(call) =>
         /\ call.res.outcome = "returned"
         /\ call.res.ret = -ENOSPC
         /\ call.res.db = call.pre
         /\ sdb = call.pre

\* A table has been renamed onto a row's path.
C4_Witness ==
  /\ Observed("sqlite", "rename")
  /\ call.path = Abs(<< <<"t">> >>)
  /\ call.path2 = Abs(<< <<"t">>, <<"1">> >>)
  /\ call.res.ret = -ENOSPC

\* C5: tabular backend: unlink on any path and mkdir on any path return
\* EROFS, and rmdir("/") returns EACCES; in all three cases no manager
\* mutation is invoked (the engine's failing makes no difference to the
\* call) and the database is unchanged.
C5_Unsupported ==
  /\ (Observed("sqlite", "unlink") \/ Observed("sqlite", "mkdir")) =>
       /\ call.res.outcome = "returned"
       /\ call.res.ret = -EROFS
       /\ call.env.fail = 0
       /\ call.res.db = call.pre /\ sdb = call.pre
  /\ (Observed("sqlite", "rmdir") /\ call.path = Root) =>
       /\ call.res.outcome = "returned"
       /\ call.res.ret = -EACCES
       /\ call.env.fail = 0
       /\ call.res.db = call.pre /\ sdb = call.pre

\* rmdir("/") has returned.
C5_Witness ==
  /\ Observed("sqlite", "rmdir")
  /\ call.path = Root
  /\ call.res.ret = -EACCES
  /\ sdb = InitSdb

(***************************************************************************)
(* What the specification says of the decoders, stated over the decoder    *)
(* call observed.                                                          *)
(***************************************************************************)
\* The components of a path that starts with a separator.
Components(path) == IF path = Root THEN <<>> ELSE SplitSlash(Tail(path))

\* path renders a tuple of non-empty, separator-free components.
Rendered(path) ==
  /\ HasRootDirectory(path)
  /\ \A i \in 1..Len(Components(path)) : Components(path)[i] # <<>>

Tags == <<"DATABASE", "TABLE", "ROW", "COLUMN">>

Nth(cs, i) == IF i <= Len(cs) THEN cs[i] ELSE Null

\* The decoded path d has the tag and exactly the components cs, or is
\* rejected when cs has four components or more.
RoundTrips(d, cs) ==
  IF Len(cs) >= 4 THEN ~d.ok
  ELSE d = SqlitePath(Tags[Len(cs) + 1], Nth(cs, 1), Nth(cs, 2), Nth(cs, 3))

RECURSIVE EscapesFrom(_, _)
\* Some ".." of the filenames fs is met at the root, depth being the number
\* of directories entered before fs.
EscapesFrom(depth, fs) ==
  IF fs = <<>> THEN FALSE
  ELSE IF Head(fs) = DotDot
    THEN depth = 0 \/ EscapesFrom(depth - 1, Tail(fs))
  ELSE IF Head(fs) = Dot THEN EscapesFrom(depth, Tail(fs))
  ELSE EscapesFrom(depth + 1, Tail(fs))

\* The ".." segments of the absolute path escape the root.
Escapes(path) == HasRootDirectory(path) /\ EscapesFrom(0, Filenames(path))

RECURSIVE DropAtRoot(_, _)
\* The filenames fs without each ".." met at the root.
DropAtRoot(depth, fs) ==
  IF fs = <<>> THEN <<>>
  ELSE IF Head(fs) = DotDot
    THEN IF depth = 0 THEN DropAtRoot(0, Tail(fs))
         ELSE <<Head(fs)>> \o DropAtRoot(depth - 1, Tail(fs))
  ELSE IF Head(fs) = Dot THEN <<Head(fs)>> \o DropAtRoot(depth, Tail(fs))
  ELSE <<Head(fs)>> \o DropAtRoot(depth + 1, Tail(fs))

\* The absolute path without the ".." segments that escape the root.
Dropped(path) ==
  LET kept(fs) ==
        IF fs = <<>> THEN Root
        ELSE <<Slash>> \o JoinSlash(fs)
               \o (IF Last(path) = Slash THEN <<Slash>> ELSE <<>>)
  IN kept(DropAtRoot(0, Filenames(path)))

\* C7 as the specification states it: the tabular and the key-value decode
\* handle a path with "//", "." or ".." segments as its lexically
\* normalized equivalent, except that a path whose ".." segments escape the
\* root is rejected.
C7_Original ==
  /\ call.op = "path_from_string" =>
       IF Escapes(call.path) THEN ~call.decoded.ok
       ELSE call.decoded =
              mdbfs_sqlite_path_from_string(mdbfs_path_lexically_normal(call.path))
  /\ call.op = "key_from_path" =>
       IF Escapes(call.path) THEN call.key = Null
       ELSE call.key = key_from_path(mdbfs_path_lexically_normal(call.path))

\* C7: the tabular and the key-value decode handle every path as its
\* lexically normalized equivalent (decode(p) = decode(normalize(p))); a
\* path whose ".." segments escape the root is not rejected for that: each
\* ".." met at the root is dropped, and the path decodes as the path
\* without them.
C7_NormalizedAlike ==
  /\ call.op = "path_from_string" =>
       /\ call.decoded =
            mdbfs_sqlite_path_from_string(mdbfs_path_lexically_normal(call.path))
       /\ Escapes(call.path) =>
            call.decoded = mdbfs_sqlite_path_from_string(Dropped(call.path))
  /\ call.op = "key_from_path" =>
       /\ call.key = key_from_path(mdbfs_path_lexically_normal(call.path))
       /\ Escapes(call.path) => call.key = key_from_path(Dropped(call.path))

\* A path that escapes the root through "." and ".." has been decoded to a
\* table.
C7_Witness ==
  /\ call.op = "path_from_string"
  /\ call.path = Abs(<< Dot, DotDot, <<>>, <<"a">> >>)
  /\ Escapes(call.path)
  /\ call.decoded = SqlitePath("TABLE", <<"a">>, Null, Null)

(***************************************************************************)
(* What the specification says of the listings and of start-up.            *)
(***************************************************************************)
\* The names the filler was invoked with, in order.
Filled(res) == [i \in 1..Len(res.entries) |-> res.entries[i].name]

\* What the manager returns to the call c, a tabular readdir, when asked
\* for the names of the directory.
SqliteListed(c) ==
  LET at(sp) == IF sp.ok /\ sp.type # "COLUMN"
                  THEN SqliteList(c.pre, c.env.fail = 1, c.env.ub, sp)
                  ELSE NullList
  IN at(mdbfs_sqlite_path_from_string(c.path))

FillsOrStops(c, names) ==
  LET at(sp) ==
        IF sp.type # "DATABASE" /\ c.env.fail \in 2..(Len(names) + 1)
          THEN /\ c.res.ret = -ENOENT
               /\ Filled(c.res) = SubSeq(names, 1, c.env.fail - 2)
          ELSE /\ c.res.ret = 0
               /\ Filled(c.res) = names
  IN c.res.outcome = "returned" /\ at(mdbfs_sqlite_path_from_string(c.path))

BdbListed(c) ==
  LET at(key) == IF key = <<>>
                   THEN mdbfs_backend_berkeleydb_get_record_keys(c.pre, c.env.fail = 1, c.env.ub)
                   ELSE NullList
  IN at(key_from_path(c.path))

\* C9: key-value readdir("/") at offset 0 invokes the filler exactly once
\* for each non-empty key get_record_keys returned, never for the empty
\* key, with no duplicates and no omissions, and returns 0.
C9_KvListing ==
  (Observed("berkeleydb", "readdir") /\ call.offset = 0 /\ BdbListed(call).ok)
    => /\ call.res.outcome = "returned"
       /\ call.res.ret = 0
       /\ Filled(call.res) = SelectSeq(BdbListed(call).names, LAMBDA k : k # <<>>)
       /\ \A i \in 1..Len(call.res.entries) : call.res.entries[i].name # <<>>

\* The root of a database that holds a record of the empty key has been
\* listed.
C9_Witness ==
  /\ Observed("berkeleydb", "readdir")
  /\ call.path = Root
  /\ call.offset = 0
  /\ <<>> \in DOMAIN call.pre
  /\ call.res.ret = 0
  /\ Len(call.res.entries) = Cardinality(DOMAIN call.pre) - 1

\* main called the backend's open and it failed: deinit is what main calls
\* then.
OpenFailed == \E i \in 1..Len(trace) : trace[i] = "deinit"

\* C10: when the selected backend's open(path) fails, the process exits
\* with code 2 and the FS host main loop is never started.
C10_OpenFailureExit ==
  OpenFailed =>
    /\ pc = "exited"
    /\ exit_code = 2
    /\ \A i \in 1..Len(trace) : trace[i] # "fuse_main"

(***************************************************************************)
(* What the specification says of start-up.                                *)
(***************************************************************************)
\* main() never made the lifecycle call x.
Never(x) == \A i \in 1..Len(trace) : trace[i] # x

\* The command line parsed, with neither --help nor --version.
Plain == opts.parse = 0 /\ ~opts.show_help /\ ~opts.show_version

\* main() returned right after the backend's init: init reported failure.
InitFailed == pc = "exited" /\ trace # <<>> /\ Last(trace) = "init"

\* main() returned r without calling open or entering fuse_main.
ExitsEarly(r) ==
  /\ pc = "exited"
  /\ exit_code = r
  /\ Never("open")
  /\ Never("fuse_main")

RECURSIVE HandlesAfter(_, _)
\* The engine handles not yet released after the engine calls, oldest
\* first, each "created", "open" or "failed".  A close releases the handle
\* the manager holds, which is the newest.
HandlesAfter(hs, calls) ==
  IF calls = <<>> THEN hs
  ELSE LET c == Head(calls)
           next == IF c = "sqlite3_open_v2 ok" THEN Append(hs, "open")
                   ELSE IF c = "sqlite3_open_v2 error" THEN Append(hs, "failed")
                   ELSE IF c = "db_create" THEN Append(hs, "created")
                   ELSE IF c = "DB->open ok" THEN Append(Front(hs), "open")
                   ELSE IF c = "DB->open error" THEN Append(Front(hs), "failed")
                   ELSE Front(hs)
       IN HandlesAfter(next, Tail(calls))

EngineHandles == HandlesAfter(<<>>, trace)

OpenEngineHandles == SelectSeq(EngineHandles, LAMBDA h : h = "open")

\* C12: per-backend handle state machine: over any sequence of
\* open/close/destroy calls the manager's handle is Closed (NULL) or Open;
\* open() from Closed gives Open on success and leaves the handle Closed
\* (the reference null) on failure; close() and destroy give Closed, from
\* Open and from Closed.
C12_HandleStates ==
  /\ g_db \in {"NULL", "open"}
  /\ (call.op = "open" /\ call.handle = "NULL")
       => g_db = IF call.ok THEN "open" ELSE "NULL"
  /\ call.op \in {"close", "destroy"} => g_db = "NULL"

\* C13: at every reachable state each backend has at most one open engine
\* handle, and none that the manager does not reference: open() while a
\* handle is Open closes the engine handle held before it opens the new
\* one.
C13_OneHandle ==
  /\ Len(OpenEngineHandles) <= 1
  /\ g_db = "NULL" => OpenEngineHandles = <<>>

ManagerOps ==
  {"get_table_names", "get_row_names", "get_column_names", "get_cell",
   "set_cell", "rename_table", "rename_column", "rename_row", "create_column",
   "remove_table", "remove_row", "get_record_keys", "get_record_value",
   "set_record_value", "rename_record", "create_record", "remove_record"}

\* C14: while a backend's handle is Closed, every manager operation of that
\* backend returns its failure value (null or fail): none reports success
\* and none dereferences the absent handle.
C14_ClosedFails ==
  (call.op \in ManagerOps /\ call.handle = "NULL")
    => /\ call.outcome = "returned"
       /\ ~call.ok
       /\ ~call.deref

(***************************************************************************)
(* What the specification says of getattr and of the errors of the         *)
(* callbacks.                                                              *)
(***************************************************************************)
\* The result res of a getattr: a regular file of n bytes, a directory, or
\* ENOENT.
IsFile(res, n) ==
  res.outcome = "returned" /\ res.ret = 0 /\ res.mode = ModeReg /\ res.size = n

IsDir(res) ==
  res.outcome = "returned" /\ res.ret = 0 /\ res.mode = ModeDir /\ res.size = 0

IsAbsent(res) == res.outcome = "returned" /\ res.ret = -ENOENT

\* The call c, a tabular getattr of a path that decodes, reports what the
\* manager's answer to it implies.
SqliteAttrAsStated(c) ==
  LET at(sp) ==
        LET answered(cell, list) ==
              IF sp.type = "COLUMN"
                THEN IF cell.ok THEN IsFile(c.res, Len(cell.data)) ELSE IsAbsent(c.res)
              ELSE IF list.trapped THEN TRUE
              ELSE IF list.ok THEN IsDir(c.res)
              ELSE IsAbsent(c.res)
        IN sp.ok =>
             answered(mdbfs_backend_sqlite_get_cell(c.pre, c.env.fail = 1,
                                                    sp.table, sp.row, sp.column),
                      IF sp.type = "COLUMN" THEN NullList
                      ELSE SqliteList(c.pre, c.env.fail = 1, c.env.ub, sp))
  IN at(mdbfs_sqlite_path_from_string(c.path))

\* The same for a key-value getattr of a path that decodes.
BdbAttrAsStated(c) ==
  LET at(key) ==
        LET answered(value) ==
              IF key = <<>> THEN IsDir(c.res)
              ELSE IF value.ok THEN IsFile(c.res, Len(value.data))
              ELSE IsAbsent(c.res)
        IN key # Null =>
             answered(mdbfs_backend_berkeleydb_get_record_value(c.pre, c.env.fail = 1, key))
  IN at(key_from_path(c.path))

\* C15: getattr returns fixed attributes determined only by the kind of the
\* path: in the tabular backend a Database, Table or Row path whose
\* next-level listing is non-null yields directory 0755 with size 0, and a
\* Column path whose cell is fetched yields regular file 0644 with size the
\* cell's byte length; in the key-value backend the root yields directory
\* 0755 with size 0 and an existing record regular file 0644 with size the
\* value's length; when the listing or the fetch is null getattr returns
\* ENOENT.
C15_FixedAttributes ==
  /\ Observed("sqlite", "getattr") => SqliteAttrAsStated(call)
  /\ Observed("berkeleydb", "getattr") => BdbAttrAsStated(call)

\* getattr of the cell /t/1/c, which holds two bytes, has reported a
\* regular file of size 2.
C15_Witness ==
  /\ Observed("sqlite", "getattr")
  /\ call.path = Abs(<< <<"t">>, <<"1">>, <<"c">> >>)
  /\ call.pre = InitSdb
  /\ IsFile(call.res, 2)

\* The path of the call c is one the tabular decode rejects.
Rejected(c) ==
  LET at(sp) == ~sp.ok IN at(mdbfs_sqlite_path_from_string(c.path))

\* C16: tabular backend: for every path that decode rejects (such as
\* /t/1/c/x, of four components), getattr returns ENOENT, readdir returns
\* ENOENT and read returns ENOENT, with no manager call made and the
\* database unchanged.  (Stated for calls that return, readdir at offset
\* 0.)
C16_RejectedPaths ==
  (backend = "sqlite" /\ call.op \in {"getattr", "readdir", "read"}
     /\ call.env = Calm /\ (call.op = "readdir" => call.offset = 0)
     /\ Rejected(call))
    => /\ call.res.outcome = "returned"
       /\ call.res.ret = -ENOENT
       /\ call.res.db = call.pre

\* The call c, a tabular read, getattr or readdir (at offset 0) of a
\* well-formed path, got NULL from the manager call that fetches or lists
\* its target.
SqliteTargetAbsent(c) ==
  LET at(sp) ==
        /\ sp.ok
        /\ IF sp.type = "COLUMN"
             THEN /\ c.op \in {"read", "getattr"}
                  /\ ~mdbfs_backend_sqlite_get_cell(c.pre, c.env.fail = 1,
                                                    sp.table, sp.row, sp.column).ok
             ELSE /\ c.op = "getattr" \/ (c.op = "readdir" /\ c.offset = 0)
                  /\ SqliteList(c.pre, c.env.fail = 1, c.env.ub, sp) = NullList
  IN at(mdbfs_sqlite_path_from_string(c.path))

\* The same for the key-value backend: the fetch of the record for read and
\* getattr of /K, the listing for readdir of the root.
BdbTargetAbsent(c) ==
  LET at(key) ==
        /\ key # Null
        /\ \/ /\ c.op = "read" \/ (c.op = "getattr" /\ key # <<>>)
              /\ ~mdbfs_backend_berkeleydb_get_record_value(c.pre, c.env.fail = 1, key).ok
           \/ /\ c.op = "readdir" /\ c.offset = 0 /\ key = <<>>
              /\ mdbfs_backend_berkeleydb_get_record_keys(c.pre, c.env.fail = 1, c.env.ub)
                   = NullList
  IN at(key_from_path(c.path))

\* C17: in both backends a read, getattr or readdir on a well-formed path
\* whose target does not exist in the database (the manager's list or fetch
\* returns null) returns ENOENT; in particular key-value read(/K) for an
\* absent key K returns ENOENT.
C17_AbsentTargets ==
  /\ (backend = "sqlite" /\ call.op \in {"read", "getattr", "readdir"}
        /\ SqliteTargetAbsent(call)) => IsAbsent(call.res)
  /\ (backend = "berkeleydb" /\ call.op \in {"read", "getattr", "readdir"}
        /\ BdbTargetAbsent(call)) => IsAbsent(call.res)

\* C18: tabular engine faults propagate: when the engine fails the
\* statement of set_cell, rename_table, rename_column, create_column,
\* remove_table or remove_row, the manager operation returns fail, so that
\* write, mknod and rmdir return EINTR and rename returns a negative errno;
\* a mutation returns success only if the engine operation succeeded.
C18_FaultsPropagate ==
  (backend = "sqlite" /\ call.op \in {"write", "mknod", "rmdir", "rename"}
     /\ call.env.fail = 1)
    => /\ call.res.outcome = "returned"
       /\ call.res.ret < 0
       /\ call.op # "rename" => call.res.ret = -EINTR
       /\ call.res.db = call.pre

\* The columns of table t in db, in declaration order.
ColumnsOf(db, t) == IF TableIndex(db, t) = 0 THEN <<>> ELSE db[TableIndex(db, t)].cols

\* After the call c, a mknod of the column sp, readdir of the row's path
\* lists the columns listed before and then the new one.
ListsNewColumn(c, sp) ==
  LET listed(rd) ==
        /\ rd.outcome = "returned"
        /\ rd.ret = 0
        /\ Filled(rd) = Append(ColumnsOf(c.pre, sp.table), sp.column)
  IN listed(sqlite_readdir(c.res.db, Calm, Abs(<<sp.table, sp.row>>), 0))

\* C19: tabular mknod(path): if path does not decode to a Column it returns
\* EROFS and leaves the database unchanged; if it decodes to Column /T/R/C
\* and create_column(T, C) succeeds (T exists and has no column C) it
\* returns 0 and a subsequent readdir("/T/R") lists C in addition to the
\* previously listed columns.  (Stated for calls the engine serves.)
C19_Mknod ==
  (Observed("sqlite", "mknod") /\ call.env = Calm) =>
    LET at(sp) ==
          IF ~(sp.ok /\ sp.type = "COLUMN")
            THEN /\ call.res.outcome = "returned"
                 /\ call.res.ret = -EROFS
                 /\ call.res.db = call.pre
          ELSE (TableIndex(call.pre, sp.table) # 0
                  /\ ColumnIndex(call.pre[TableIndex(call.pre, sp.table)], sp.column) = 0)
                 => /\ call.res.outcome = "returned"
                    /\ call.res.ret = 0
                    /\ ListsNewColumn(call, sp)
    IN at(mdbfs_sqlite_path_from_string(call.path))

\* The call c returned r and left the database as it found it.
FailsWith(c, r) ==
  c.res.outcome = "returned" /\ c.res.ret = r /\ c.res.db = c.pre

\* readdir(path) at offset 0 on db returns 0 and lists exactly names.
Lists(db, path, names) ==
  LET listed(rd) == rd.outcome = "returned" /\ rd.ret = 0 /\ Filled(rd) = names
  IN listed(sqlite_readdir(db, Calm, path, 0))

\* The call c, an rmdir of table t, returned 0 and removed exactly t.
RemovedTable(c, t) ==
  /\ c.res.outcome = "returned"
  /\ c.res.ret = 0
  /\ c.res.db = SelectSeq(c.pre, LAMBDA x : x.name # t)
  /\ Lists(c.res.db, Root,
           SelectSeq([i \in 1..Len(c.pre) |-> c.pre[i].name], LAMBDA n : n # t))

\* The call c, an rmdir of row r of the existing table t, returned 0 and
\* removed exactly that row.
RemovedRow(c, t, r) ==
  LET of(ti) ==
        /\ c.res.outcome = "returned"
        /\ c.res.ret = 0
        /\ c.res.db = [c.pre EXCEPT ![ti].rows = SelectSeq(@, LAMBDA x : x.id # r)]
        /\ Lists(c.res.db, Abs(<<t>>),
                 SelectSeq([i \in 1..Len(c.pre[ti].rows) |-> c.pre[ti].rows[i].id],
                           LAMBDA n : n # r))
  IN of(TableIndex(c.pre, t))

\* C20: tabular rmdir(path): a Column path returns EINTR with no change;
\* the Database path returns EACCES with no change; a Table path /T
\* removes exactly table T (afterwards readdir("/") no longer lists T and
\* the other tables are unchanged); a Row path /T/R removes exactly row R
\* of T (afterwards readdir("/T") no longer lists R and the other rows are
\* unchanged); a failure of the manager operation yields EINTR.
C20_Rmdir ==
  (Observed("sqlite", "rmdir") /\ ~Rejected(call)) =>
    LET at(sp) ==
          IF sp.type = "COLUMN" THEN FailsWith(call, -EINTR)
          ELSE IF sp.type = "DATABASE" THEN FailsWith(call, -EACCES)
          ELSE IF call.env.fail = 1 THEN FailsWith(call, -EINTR)
          ELSE IF sp.type = "TABLE" THEN RemovedTable(call, sp.table)
          ELSE TableIndex(call.pre, sp.table) # 0 => RemovedRow(call, sp.table, sp.row)
    IN at(mdbfs_sqlite_path_from_string(call.path))

(***************************************************************************)
(* What the specification says of the key-value mutations.                 *)
(***************************************************************************)
\* The set of names readdir("/") at offset 0 passes to the filler on db.
BdbListing(db) ==
  LET listed(rd) == {rd.entries[i].name : i \in 1..Len(rd.entries)}
  IN listed(bdb_readdir(db, Calm, Root, 0))

\* The call c, an unlink, returned 0 and removed exactly the record K:
\* readdir("/") lists what it listed before except K, getattr(/K) returns
\* ENOENT, and the other records keep their values.
BdbRemoved(c, K) ==
  /\ c.res.outcome = "returned"
  /\ c.res.ret = 0
  /\ K \notin DOMAIN c.res.db
  /\ OthersUnchanged(c.pre, c.res.db, K)
  /\ BdbListing(c.res.db) = BdbListing(c.pre) \ {K}
  /\ IsAbsent(bdb_getattr(c.res.db, Calm, Abs(<<K>>)))

\* The key of the call's path is rejected by the decode or names no record.
BdbNoRecord(c) ==
  LET at(key) == key = Null \/ key \notin DOMAIN c.pre
  IN at(key_from_path(c.path))

BdbMoved(c, A, B) ==
  /\ B \in DOMAIN c.res.db
  /\ c.res.db[B] = c.pre[A]
  /\ A # B => A \notin DOMAIN c.res.db
  /\ DOMAIN c.res.db = ((DOMAIN c.pre) \ {A}) \cup {B}
  /\ \A k \in (DOMAIN c.pre) \ {A, B} : c.res.db[k] = c.pre[k]

RenameOrder ==
  trace \in { <<>>, <<"get error">>, <<"get ok">>, <<"get ok", "del error">>,
              <<"get ok", "del ok">>, <<"get ok", "del ok", "put error">>,
              <<"get ok", "del ok", "put ok">> }

\* The old record has been deleted and nothing has been put: the database
\* is the one before the call without the old key, so the record is under
\* neither key.
RecordInLimbo ==
  /\ call.key_old \in DOMAIN call.pre
  /\ call.key_old \notin DOMAIN kdb
  /\ kdb = Del(call.pre, call.key_old)

\* C23: key-value rename is not atomic: it executes get, delete, put as
\* three separate engine steps, and between the delete and the put the
\* record exists under neither the old nor the new key; if the put fails,
\* or execution stops after the delete, no rollback is performed, the value
\* is lost from the database, and a rename that returns reports failure.
C23_RenameNotAtomic ==
  /\ RenameOrder
  /\ pc = "put" => (trace = <<"get ok", "del ok">> /\ RecordInLimbo)
  /\ (trace # <<>> /\ Last(trace) = "put error") =>
       /\ RecordInLimbo
       /\ call.ret = 0
       /\ pc = "returned" => call.res = -EINVAL
  /\ (pc = "stopped" /\ trace = <<"get ok", "del ok">>) => RecordInLimbo

\* Between the del and the put of rename(/k, /n): the database holds
\* neither k nor n.
C23_Witness ==
  /\ pc = "put"
  /\ call.path = Abs(<< <<"k">> >>)
  /\ call.path2 = Abs(<< <<"n">> >>)
  /\ <<"k">> \in DOMAIN call.pre
  /\ <<"k">> \notin DOMAIN kdb
  /\ <<"n">> \notin DOMAIN kdb

\* The rename whose put failed has returned EINVAL with the value lost.
RenameLostValue ==
  /\ pc = "returned"
  /\ trace # <<>>
  /\ Last(trace) = "put error"
  /\ call.res = -EINVAL
  /\ \A k \in DOMAIN kdb : kdb[k] # call.pre[call.key_old]

\* The rename taken step by step ends as rename_record taken whole, for the
\* same failing step.
RenameStepsAgree ==
  pc = "returned" /\ trace # <<>> =>
    LET whole(r) == /\ kdb = r.db
                    /\ call.ret = r.r
                    /\ call.res = bdb_rename(call.pre,
                                             [fail |-> IF call.ret = 1 THEN 0 ELSE Len(trace),
                                              ub |-> "benign"],
                                             call.path, call.path2).ret
    IN whole(mdbfs_backend_berkeleydb_rename_record(
               call.pre, IF call.ret = 1 THEN 0 ELSE Len(trace),
               call.key_old, call.key_new))

(***************************************************************************)
(* What the specification says of the registry, stated over the registry   *)
(* call observed.                                                          *)
(***************************************************************************)
\* The registry of the build the observed call ran in.
Reg == BackendsBuilt(call.build)

\* The entries of the registry whose name is exactly name.
Matches(name) == {i \in 1..Len(Reg) : Reg[i].name = name}

\* The names that select the same backend, the first being the one the
\* specification calls primary.
AliasGroups ==
  { << <<"s","q","l","i","t","e">>, <<"s","q","l","i","t","e","3">> >>,
    << <<"b","e","r","k","e","l","e","y","d","b">>, <<"b","d","b">>, <<"d","b">> >> }

\* C24: registry lookup get(name) scans the ordered registry and returns
\* the descriptor produced by the factory of the first entry whose name
\* equals name exactly; every alias (sqlite/sqlite3; berkeleydb/bdb/db)
\* yields a descriptor with the same self-reported name as its primary
\* entry; a name matching no entry yields none and calls no factory.
C24_RegistryLookup ==
  call.op = "get" =>
    /\ Matches(call.name) = {} => (call.ret = NoDescriptor /\ call.calls = <<>>)
    /\ Matches(call.name) # {} =>
         LET first == CHOOSE i \in Matches(call.name) :
                        \A j \in Matches(call.name) : i <= j
         IN /\ call.ret = Factory(Reg[first].backend, call.sqlite)
            /\ call.calls = <<Reg[first].backend>>
            /\ \A j \in 1..(first - 1) : Reg[j].name # call.name
    /\ \A g \in AliasGroups :
         (call.ret # NoDescriptor /\ \E i \in 1..Len(g) : g[i] = call.name)
           => call.ret.name = mdbfs_backend_get_from(Reg, call.sqlite, g[1]).ret.name

\* get("bdb") has called the Berkeley DB factory and returned the
\* descriptor that names itself berkeleydb.
C24_Witness ==
  /\ call.op = "get"
  /\ call.name = <<"b","d","b">>
  /\ call.build = {"sqlite", "berkeleydb"}
  /\ call.ret.name = BdbName
  /\ call.calls = <<"berkeleydb">>

\* In the build with both backends the lookup selects the backend that
\* main's lookup selects.
RegistryAgrees ==
  (call.op = "get" /\ call.build = {"sqlite", "berkeleydb"}) =>
    call.calls = IF mdbfs_backend_get(call.name) = "none" THEN <<>>
                 ELSE <<mdbfs_backend_get(call.name)>>

\* The primary entries of the registry, in registry order: those whose
\* name is the name their backend reports.
PrimaryEntries ==
  SelectSeq(Reg, LAMBDA e : e.name = Factory(e.backend, call.sqlite).name)

RECURSIVE Blocks(_, _)
\* The concatenation of one block per entry, in order: a help block if
\* help, a version block if not.
Blocks(entries, help) ==
  IF entries = <<>> THEN <<>>
  ELSE LET b == Factory(Head(entries).backend, call.sqlite)
       IN (IF help
             THEN b.name \o Dash \o b.description \o BlankLine
                    \o (IF b.help = Null THEN NoHelp ELSE b.help) \o BlankLine
             ELSE BackendWord \o b.name \o VersionWord \o b.version \o NewLine)
            \o Blocks(Tail(entries), help)

\* C25: help_text() and version_text() contain exactly one block per
\* primary registry entry (an entry whose registry name equals the
\* backend's self-reported name), in registry order, and no block for alias
\* entries; a help block is "<name> - <description>\n\n<help>\n\n" with the
\* placeholder text used when the backend's help is absent, and a version
\* block is "Backend <name> version <version>\n".
C25_HelpAndVersion ==
  /\ call.op = "get_help" => call.text = Blocks(PrimaryEntries, TRUE)
  /\ call.op = "get_version" => call.text = Blocks(PrimaryEntries, FALSE)
  /\ call.op \in {"get_help", "get_version"} =>
       /\ Len(PrimaryEntries) <= Cardinality(call.build)
       /\ Len(call.text) = call.ret_length

\* The help text of the build with both backends, where the SQLite
\* descriptor names itself sqlite and has a help text: two blocks, the
\* second with the placeholder.
C25_Witness ==
  /\ call.op = "get_help"
  /\ call.build = {"sqlite", "berkeleydb"}
  /\ call.sqlite.name = SqliteName
  /\ call.sqlite.help = <<"h">>
  /\ call.text = SqliteName \o Dash \o <<"S","Q","L">> \o BlankLine \o <<"h">>
                   \o BlankLine \o BdbName \o Dash \o BdbDescription
                   \o BlankLine \o NoHelp \o BlankLine


(***************************************************************************)
(* What the specification says of a trailing separator and of the shape of *)
(* the decoders' results.                                                  *)
(***************************************************************************)
\* The first n components of the path are non-empty, separator-free and
\* neither "." nor "..".
PlainUpTo(path, n) ==
  /\ HasRootDirectory(path)
  /\ Len(Components(path)) >= n
  /\ \A i \in 1..n : Components(path)[i] \notin {<<>>, Dot, DotDot}

\* The path is n such components followed by one trailing separator.
BareTrailing(path, n) ==
  /\ PlainUpTo(path, n)
  /\ Len(Components(path)) = n + 1
  /\ Last(Components(path)) = <<>>

\* C26 as the specification states it: for N in {1, 2} a path of N
\* components followed by a single trailing separator decodes to the same
\* tag and the same components as the path without the trailing separator;
\* and a path with three components is rejected only if a non-empty fourth
\* segment follows, so three components and a bare trailing separator are
\* not rejected.
C26_TrailingSeparator ==
  call.op = "path_from_string" =>
    /\ \A n \in {1, 2} :
         BareTrailing(call.path, n) =>
           RoundTrips(call.decoded, Front(Components(call.path)))
    /\ (PlainUpTo(call.path, 3) /\ ~call.decoded.ok) =>
         \E i \in 4..Len(Components(call.path)) : Components(call.path)[i] # <<>>

\* What the decoder does with a trailing separator: the normalizer keeps
\* it, and the walk takes the empty string after it as one more component,
\* so that one component gives a row with the empty name, two give a column
\* with the empty name, and three are rejected.
TrailingSeparatorKept ==
  call.op = "path_from_string" =>
    \A n \in 1..3 :
      BareTrailing(call.path, n) =>
        /\ mdbfs_path_lexically_normal(call.path) = call.path
        /\ RoundTrips(call.decoded, Components(call.path))


\* The non-empty segments of a path that starts with a separator.
NonEmptySegments(path) == SelectSeq(Components(path), LAMBDA s : s # <<>>)

\* No segment of the path is "." or "..".
DotFree(path) == \A i \in 1..Len(SplitSlash(path)) : SplitSlash(path)[i] \notin {Dot, DotDot}

\* C27 as the specification states it, for the paths without "." and ".."
\* segments: the key-value decode rejects a relative path; the root path
\* decodes to the empty key; any other path decodes to its first non-empty
\* segment as the key and is rejected exactly when a further non-empty
\* segment follows, so that a single component followed only by a trailing
\* separator is accepted with that component as the key.
C27_KeyDecode ==
  (call.op = "key_from_path" /\ DotFree(call.path)) =>
    IF ~HasRootDirectory(call.path) THEN call.key = Null
    ELSE IF call.path = Root THEN call.key = <<>>
    ELSE IF Len(NonEmptySegments(call.path)) = 1
      THEN call.key = NonEmptySegments(call.path)[1]
    ELSE Len(NonEmptySegments(call.path)) >= 2 => call.key = Null

\* What the key-value decoder does with the normalized path n of an
\* absolute path: the key is what lies between the first separator and the
\* end, and the path is rejected when any separator follows the first
\* component, a bare trailing one included.
KeyOfNormalized ==
  call.op = "key_from_path" =>
    LET of(n) ==
          IF ~HasRootDirectory(n) THEN call.key = Null
          ELSE IF \E i \in 2..Len(n) : n[i] = Slash THEN call.key = Null
          ELSE call.key = Tail(n)
    IN of(mdbfs_path_lexically_normal(call.path))


\* The components of the decoded path d that are present, as a set of
\* field names.
Present(d) ==
  {f \in {"table", "row", "column"} :
     (f = "table" /\ d.table # Null) \/ (f = "row" /\ d.row # Null)
       \/ (f = "column" /\ d.column # Null)}

\* C28: every result of the tabular decode satisfies the tag invariants:
\* tag Database implies table, row and column are all absent; tag Table
\* implies only table is present; tag Row implies table and row are present
\* and column is absent; tag Column implies all three are present; and a
\* rejected decode returns no record at all.
C28_TagInvariants ==
  call.op = "path_from_string" =>
    IF call.decoded.ok
      THEN /\ call.decoded.type \in {"DATABASE", "TABLE", "ROW", "COLUMN"}
           /\ call.decoded.type = "DATABASE" => Present(call.decoded) = {}
           /\ call.decoded.type = "TABLE" => Present(call.decoded) = {"table"}
           /\ call.decoded.type = "ROW" => Present(call.decoded) = {"table", "row"}
           /\ call.decoded.type = "COLUMN" =>
                Present(call.decoded) = {"table", "row", "column"}
      ELSE call.decoded = NoPath

\* A path of two components and a trailing separator has been decoded to a
\* column whose three components are present, the last one of length zero.
C28_Witness ==
  /\ call.op = "path_from_string"
  /\ call.path = Abs(<< <<"a">>, <<"b">>, <<>> >>)
  /\ call.decoded.type = "COLUMN"
  /\ Present(call.decoded) = {"table", "row", "column"}
  /\ call.decoded.column = <<>>


(***************************************************************************)
(* What the specification says of operations on the wrong kind of path.    *)
(***************************************************************************)
\* The call observed is the callback op of the backend b.
Called(b, op) == backend = b /\ pc \in {"mounted", "crashed"} /\ call.op = op

\* The call observed returned ret, invoked no filler and left the database
\* as it was.
Refused(ret) ==
  /\ call.res.outcome = "returned"
  /\ call.res.ret = ret
  /\ call.res.entries = <<>>
  /\ call.res.db = call.pre

MutatesAtRoot ==
  /\ Called("berkeleydb", call.op)
  /\ \/ call.op \in {"mknod", "write", "unlink"} /\ call.path = Root
     \/ call.op = "rename" /\ (call.path = Root \/ call.path2 = Root)

\* The record with the empty key is in after what it was in before: there
\* with the same value, or not there.
EmptyKeyKept(before, after) ==
  /\ (<<>> \in DOMAIN before) <=> (<<>> \in DOMAIN after)
  /\ <<>> \in DOMAIN before => after[<<>>] = before[<<>>]

\* C30: key-value mutations never touch the empty key: after a mknod,
\* write, rename or unlink call in which some path argument is the root
\* "/", no record with the empty key has been created, overwritten or
\* deleted, no record has been moved to or from the empty key, and the set
\* of records visible through readdir("/") has lost no entry.
C30_EmptyKeyUntouched ==
  MutatesAtRoot =>
    /\ EmptyKeyKept(call.pre, call.res.db)
    /\ Shown(CursorOrder(DOMAIN call.pre)) = Shown(CursorOrder(DOMAIN call.pre \cap DOMAIN call.res.db))

\* What the calls at the root do when the engine reports no fault:
\* unlink("/") deletes the record with the empty key, write("/") at offset
\* 0 stores the bytes under it, and rename("/k", "/") moves the record k
\* to it, so that k is no longer listed.
RootIsTheEmptyKey ==
  (MutatesAtRoot /\ call.res.outcome = "returned" /\ call.env.fail = 0) =>
    /\ call.op = "unlink" =>
         call.res.db = Del(call.pre, <<>>)
    /\ (call.op = "write" /\ call.offset = 0) =>
         call.res.db = Put(call.pre, <<>>, call.bytes)
    /\ (call.op = "rename" /\ call.path2 = Root /\ key_from_path(call.path) # Null
          /\ key_from_path(call.path) \in DOMAIN call.pre) =>
         call.res.db = Put(Del(call.pre, key_from_path(call.path)), <<>>,
                           call.pre[key_from_path(call.path)])


(***************************************************************************)
(* What follows from the specification for calls taken together: a rename  *)
(* and the lookups after it, a listing and the lookups of what it lists.   *)
(***************************************************************************)
\* What getattr returns for the path in the database db when nothing
\* fails.
SqliteLookup(db, path) == sqlite_getattr_at(db, FALSE, "benign", path)

\* C31: a successful tabular rename(a, b) makes b resolvable and a
\* unresolvable: whenever rename(a, b) returns 0 with a existing and a
\* different from b, afterwards getattr(b) returns 0 and getattr(a)
\* returns ENOENT, also when a and b have the same tag but different
\* parent components.  Stated for the calls in which the engine reports no
\* fault.
C31_RenameMoves ==
  (/\ Called("sqlite", "rename")
   /\ call.env = Calm
   /\ call.res.outcome = "returned"
   /\ call.res.ret = 0
   /\ mdbfs_sqlite_path_from_string(call.path)
        # mdbfs_sqlite_path_from_string(call.path2)
   /\ SqliteLookup(call.pre, call.path).ret = 0) =>
    /\ SqliteLookup(call.res.db, call.path2).ret = 0
    /\ SqliteLookup(call.res.db, call.path).ret = -ENOENT

\* What a rename that returns 0 does when nothing fails: a table or a
\* column is renamed within its parent when the new name is free and not
\* empty, the parent components of the new path are not looked at, and in
\* every other case, a row included, the database is left as it was.
RenameWithinParent ==
  LET at(old, new) ==
        (/\ Called("sqlite", "rename")
         /\ call.env = Calm
         /\ call.res.outcome = "returned"
         /\ call.res.ret = 0) =>
          /\ old.type = new.type
          /\ old.type = "TABLE" =>
               call.res.db = mdbfs_backend_sqlite_rename_table(
                                call.pre, FALSE, old.table, new.table).db
          /\ old.type = "ROW" => call.res.db = call.pre
          /\ old.type = "COLUMN" =>
               call.res.db = mdbfs_backend_sqlite_rename_column(
                                call.pre, FALSE, old.table, old.column, new.column).db
  IN at(mdbfs_sqlite_path_from_string(call.path),
        mdbfs_sqlite_path_from_string(call.path2))


\* The path of the entry name of the directory path.
Under(path, name) == path \o <<Slash>> \o name

\* C32: the tabular listing is consistent with lookup: for every existing
\* row /T/R, every column name C that readdir("/T/R") passes to the filler
\* is one for which getattr("/T/R/C") returns 0 and reports a regular
\* file, also for a column just created by mknod, whose cells hold the
\* engine's null default, and for a cell whose text equals its column
\* name.  Stated for the calls in which the engine reports no fault.
C32_ListedColumnsResolve ==
  (/\ Called("sqlite", "readdir")
   /\ call.env = Calm
   /\ call.res.outcome = "returned"
   /\ mdbfs_sqlite_path_from_string(call.path).type = "ROW"
   /\ SqliteLookup(call.pre, call.path).ret = 0) =>
    \A i \in 1..Len(call.res.entries) :
      /\ SqliteLookup(call.pre, Under(call.path, call.res.entries[i].name)).ret = 0
      /\ SqliteLookup(call.pre, Under(call.path, call.res.entries[i].name)).mode
           = ModeReg

\* What the lookup of a listed column does: it succeeds exactly when the
\* cell is not null and its text is not the column's name.
ListedColumnLookup ==
  LET at(sp) ==
        (/\ Called("sqlite", "readdir")
         /\ call.env = Calm
         /\ call.res.outcome = "returned"
         /\ sp.type = "ROW"
         /\ SqliteLookup(call.pre, call.path).ret = 0) =>
          \A i \in 1..Len(call.res.entries) :
            LET name == call.res.entries[i].name
                tbl == call.pre[TableIndex(call.pre, sp.table)]
                cell == DqValue(tbl, MatchingRows(tbl, sp.row)[1], name)
            IN SqliteLookup(call.pre, Under(call.path, name)).ret
                 = IF cell = Null \/ cell = name THEN -ENOENT ELSE 0
  IN at(mdbfs_sqlite_path_from_string(call.path))


\* What the key-value getattr returns for the path in the database db when
\* nothing fails.
BdbLookup(db, path) == bdb_getattr_at(db, FALSE, path)

\* C33: the key-value listing is consistent with lookup: for every database
\* state, every name that readdir("/") passes to the filler is a name for
\* which getattr("/" + name) returns 0 and reports a regular file, and the
\* attributes passed to the filler for that name equal the attributes
\* getattr reports, also for keys that contain a separator or are "." or
\* "..".  Stated for the calls in which the engine reports no fault.
C33_ListedKeysResolve ==
  (/\ Called("berkeleydb", "readdir")
   /\ call.env = Calm
   /\ call.res.outcome = "returned"
   /\ call.path = Root
   /\ call.offset = 0) =>
    \A i \in 1..Len(call.res.entries) :
      LET attr == BdbLookup(call.pre, <<Slash>> \o call.res.entries[i].name)
      IN /\ attr.ret = 0
         /\ attr.mode = ModeReg
         /\ call.res.entries[i].mode = attr.mode
         /\ call.res.entries[i].size = attr.size

\* What the listing passes for each name: the attributes getattr fills in
\* for "/" + name, which is decoded as a path, so that the key "." gets
\* the attributes of the root directory and every other key of the
\* database, being free of separators here, those of its record.
ListedKeyAttributes ==
  (/\ Called("berkeleydb", "readdir")
   /\ call.env = Calm
   /\ call.res.outcome = "returned"
   /\ call.path = Root
   /\ call.offset = 0) =>
    /\ {call.res.entries[i].name : i \in 1..Len(call.res.entries)}
         = DOMAIN call.pre \ {<<>>}
    /\ \A i \in 1..Len(call.res.entries) :
         LET name == call.res.entries[i].name
         IN IF name \in {Dot, DotDot}
              THEN /\ call.res.entries[i].mode = ModeDir
                   /\ call.res.entries[i].size = 0
              ELSE /\ call.res.entries[i].mode = ModeReg
                   /\ call.res.entries[i].size = Len(call.pre[name])


(***************************************************************************)
(* What the specification says of the effects of single calls.             *)
(***************************************************************************)
\* C34: the key-value mknod(/K) never changes an existing record: if the
\* record K exists with value v, then after mknod(/K) returns the record K
\* still has value v; if K is absent and mknod returns 0, the record K
\* exists with an empty value and getattr reports size 0.
C34_MknodKeepsRecords ==
  LET at(key) ==
        (/\ Called("berkeleydb", "mknod")
         /\ call.res.outcome = "returned"
         /\ key \notin {Null, <<>>}) =>
          /\ key \in DOMAIN call.pre =>
               /\ key \in DOMAIN call.res.db
               /\ call.res.db[key] = call.pre[key]
          /\ (key \notin DOMAIN call.pre /\ call.res.ret = 0) =>
               /\ key \in DOMAIN call.res.db
               /\ call.res.db[key] = <<>>
               /\ BdbLookup(call.res.db, call.path).ret = 0
               /\ BdbLookup(call.res.db, call.path).size = 0
  IN at(key_from_path(call.path))

\* What mknod does to the record it names: when it returns 0 the record
\* has the empty value, whether it existed or not; when it fails the
\* database is as it was.
MknodPutsEmpty ==
  LET at(key) ==
        (/\ Called("berkeleydb", "mknod")
         /\ call.res.outcome = "returned"
         /\ key # Null) =>
          IF call.res.ret = 0
            THEN call.res.db = Put(call.pre, key, <<>>)
            ELSE call.res.db = call.pre
  IN at(key_from_path(call.path))


Times(name) == Len(SelectSeq(trace, LAMBDA x : x = name))

\* The operation has returned after its statement was prepared.
ReturnedPrepared == pc = "stmt_returned" /\ call.stmt # "NULL"

\* The value the operation owes its caller, from what the engine gave
\* before the quit label.
Owed(c) ==
  IF c.op \in StmtMutations THEN "1"
  ELSE IF c.op \in ListLoops THEN IF c.stepped = "DONE" THEN "list" ELSE "NULL"
  ELSE IF c.op = "get_column_names" THEN IF c.stepped = "ROW" THEN "list" ELSE "NULL"
  ELSE IF c.stepped = "ROW" /\ c.cell = "text"
    THEN IF c.op = "get_cell" THEN "cell" ELSE "length"
  ELSE Nothing(c.op)

\* C36: in every tabular manager operation, on every exit path taken after
\* a statement was prepared (success, engine error during stepping, missing
\* row, null result), the prepared statement is finalized exactly once
\* before the operation returns, and a finalize failure does not change the
\* returned value.
C36_FinalizedOnce ==
  ReturnedPrepared =>
    /\ Times("finalize") = 1
    /\ call.stmt = "finalized"
    /\ call.ret = Owed(call)

\* What holds: every operation but get_table_names finalizes its statement
\* exactly once on every exit path, get_table_names does so unless a step
\* failed, in which case it resets the statement and returns without
\* finalizing it; and the value returned never depends on what
\* sqlite3_finalize returned.
FinalizedButForTableNames ==
  ReturnedPrepared =>
    /\ call.ret = Owed(call)
    /\ IF call.op = "get_table_names" /\ call.stepped = "ERROR"
         THEN /\ Times("finalize") = 0
              /\ Times("reset") = 1
              /\ call.stmt = "prepared"
         ELSE /\ Times("finalize") = 1
              /\ call.stmt = "finalized"


Queries == {"getattr", "read", "readdir"}

\* C37: the query operations getattr, read and readdir of both backends
\* never modify the database or the handle state: for every path and every
\* database state, the database content and the handle after the call
\* equal those before the call, whether the call succeeds or fails.
C37_QueriesChangeNothing ==
  [][(pc = "mounted" /\ call.op = "idle" /\ call'.op \in Queries) =>
       /\ sdb' = sdb
       /\ kdb' = kdb
       /\ g_db' = g_db
       /\ call'.res.db = call'.pre]_vars

\* A read has copied the two bytes of the record k and the database holds
\* the records it held.
C37_Witness ==
  /\ Called("berkeleydb", "read")
  /\ call.path = Abs(<< <<"k">> >>)
  /\ call.res.ret = 2
  /\ call.res.data = <<"a", "b">>
  /\ kdb = InitKdb
  /\ g_db = "open"


(***************************************************************************)
(* What follows from the specification for the order of start-up.          *)
(***************************************************************************)
\* The position of the first call of that name among the lifecycle calls
\* made so far, 0 if there is none.
First(name) ==
  IF \E i \in 1..Len(trace) : trace[i] = name
    THEN CHOOSE i \in 1..Len(trace) :
           trace[i] = name /\ \A j \in 1..(i - 1) : trace[j] # name
    ELSE 0

\* The open that main makes succeeds.
OpenSucceeds == BackendOpen(backend, "NULL", opts.path).r > 0

\* C38: start-up ordering in main: unless help was requested, the FS host
\* main loop is entered only after the backend lookup returned a
\* descriptor, init returned success and open returned success, in that
\* order; open is never called before a successful init; and on open
\* failure deinit is called before the process exits.
C38_StartupOrder ==
  pc # "start" =>
    /\ (First("fuse_main") > 0 /\ ~opts.show_help) =>
         /\ 0 < First("mdbfs_backend_get")
         /\ First("mdbfs_backend_get") < First("init")
         /\ First("init") < First("open")
         /\ First("open") < First("fuse_main")
         /\ backend # "none"
         /\ BackendInit(backend, opts) # 0
         /\ OpenSucceeds
    /\ First("open") > 0 =>
         /\ 0 < First("init")
         /\ First("init") < First("open")
         /\ BackendInit(backend, opts) # 0
    /\ (First("open") > 0 /\ ~OpenSucceeds) =>
         /\ pc = "exited"
         /\ First("deinit") > First("open")
         /\ First("fuse_main") = 0

\* main has returned after an open that failed: lookup, init, open and
\* deinit were called in that order, and the main loop was not entered.
C38_Witness ==
  /\ pc = "exited"
  /\ ~opts.show_help
  /\ trace = <<"fuse_opt_parse", "mdbfs_backend_get", "init", "open", "deinit">>
  /\ ~OpenSucceeds
  /\ First("fuse_main") = 0


(***************************************************************************)
(* What the specification says of diagnostic output.                       *)
(***************************************************************************)
\* The name of a message level in the output.
LevelName(msg_level) ==
  IF msg_level = MDBFS_PRINT_LEVEL_DEBUG THEN "DEBUG"
  ELSE IF msg_level = MDBFS_PRINT_LEVEL_INFO THEN "INFO"
  ELSE IF msg_level = MDBFS_PRINT_LEVEL_WARNING THEN "WARN"
  ELSE "FAIL"

\* A message of one of the four levels has been handed to println.
Printed ==
  /\ call.op = "println"
  /\ MDBFS_PRINT_LEVEL_MESSAGE_LEVEL(call.level)
       \in {MDBFS_PRINT_LEVEL_DEBUG, MDBFS_PRINT_LEVEL_INFO,
            MDBFS_PRINT_LEVEL_WARNING, MDBFS_PRINT_LEVEL_ERROR}

\* The line of the form "** mdbfs: <LEVEL>: <message>\n" for the call.
Line ==
  "** mdbfs: " \o LevelName(MDBFS_PRINT_LEVEL_MESSAGE_LEVEL(call.level)) \o ": "
    \o call.message \o "\n"

\* C39: diagnostic output gating: a DEBUG-level message is emitted if and
\* only if the environment variable MDBFS_DEBUG is set to a non-empty value
\* (unset or empty suppresses it); INFO, WARN and FAIL messages are always
\* emitted; each emitted line has the form "** mdbfs: <LEVEL>: <message>\n".
C39_DebugGating ==
  Printed =>
    IF MDBFS_PRINT_LEVEL_MESSAGE_LEVEL(call.level) = MDBFS_PRINT_LEVEL_DEBUG
         /\ call.env \in {Null, <<>>}
      THEN call.out = ""
      ELSE call.out = Line

\* What println does: a DEBUG-level message is emitted if and only if
\* MDBFS_DEBUG is set, to any value, the empty one included; the other
\* levels are always emitted; each emitted line has the stated form; and
\* the process is aborted after the line exactly when the stop bit is set.
GatedBySetness ==
  Printed =>
    /\ IF MDBFS_PRINT_LEVEL_MESSAGE_LEVEL(call.level) = MDBFS_PRINT_LEVEL_DEBUG
            /\ call.env = Null
         THEN call.out = "" /\ ~call.aborted
         ELSE /\ call.out = Line
              /\ call.aborted <=> call.level >= MDBFS_PRINT_LEVEL_STOP


(***************************************************************************)
(* What the specification says of the heap use of the callbacks.           *)
(***************************************************************************)
\* How often the buffer b occurs in the sequence s.
Occurs(b, s) == Len(SelectSeq(s, LAMBDA x : x = b))

\* A callback has returned to the file system library.
CallbackReturned == call.op = "callback" /\ call.outcome = "returned"

\* The buffers of the ledger l that were never handed to free().
Unreleased(l) == {l.alloc[i] : i \in {j \in 1..Len(l.alloc) : Occurs(l.alloc[j], l.free) = 0}}

\* C40: allocation balance of the filesystem layer: for every filesystem
\* operation of both backends and every exit path (success, decode
\* rejection, root path, manager failure, getattr failure inside readdir),
\* every buffer the operation allocated or received with ownership has been
\* released exactly once when the operation returns.
C40_AllocationBalance ==
  CallbackReturned =>
    \A i \in 1..Len(call.ledger.alloc) :
      Occurs(call.ledger.alloc[i], call.ledger.free) = 1

\* What the callbacks do: no buffer is released twice and nothing is
\* released that was not allocated; the buffers left unreleased are the
\* normalized path of every Berkeley DB decoding of the root (that of the
\* path given, or that of a listed key readdir asks the attributes of), and
\* the name list of an SQLite readdir whose loop a failing getattr ended.
BalanceButRootAndLoop ==
  CallbackReturned =>
    /\ \A i \in 1..Len(call.ledger.free) :
         /\ Occurs(call.ledger.free[i], call.ledger.free) = 1
         /\ Occurs(call.ledger.free[i], call.ledger.alloc) = 1
    /\ \A b \in Unreleased(call.ledger) :
         \/ /\ backend = "berkeleydb"
            /\ b.buf = "normalized_path"
            /\ mdbfs_path_lexically_normal(
                 IF b.in > 0
                   THEN <<Slash>> \o Shown(CursorOrder(DOMAIN InitKdb))[b.in]
                 ELSE IF b.at = 2 THEN call.path2
                 ELSE call.path) = Root
         \/ /\ backend = "sqlite"
            /\ call.name = "readdir"
            /\ b.buf = "names"
            /\ b.in = 0
            /\ \E i \in 1..Len(call.ledger.alloc) : call.ledger.alloc[i].in > 0
    /\ (backend = "berkeleydb" /\ call.name \in {"getattr", "mknod", "unlink", "read"}
          /\ mdbfs_path_lexically_normal(call.path) = Root)
         => Unreleased(call.ledger) = {Buf("normalized_path", 0, 0)}

\* The leak of the root path: getattr of "/" on Berkeley DB has returned 0.
RootPathLeaks ==
  /\ CallbackReturned
  /\ backend = "berkeleydb"
  /\ call.name = "getattr"
  /\ call.path = Root
  /\ Unreleased(call.ledger) = {Buf("normalized_path", 0, 0)}

\* The leak of the list: readdir of a table on SQLite whose second getattr
\* the engine failed.
LoopExitLeaks ==
  /\ CallbackReturned
  /\ backend = "sqlite"
  /\ call.name = "readdir"
  /\ call.env.fail = 3
  /\ Buf("names", 0, 0) \in Unreleased(call.ledger)
  /\ Buf("names", 0, 2) \in Unreleased(call.ledger)

=============================================================================
